---- MODULE Spec2Model ----
(***************************************************************************)
(* A model of the HOL4 VS Code extension (oskarabrahamsson/hol4-vscode).   *)
(*                                                                         *)
(* The sentinel kernel is class HolKernel with its helper class Execution  *)
(* (src/unnamed/part_002, lines 6-252).  The kernel owns one child         *)
(* process, one current Execution and a FIFO queue of cells; process       *)
(* output is framed by a trailing NUL byte (the sentinel).                 *)
(*                                                                         *)
(* Every method of the kernel is a pure operator from a state record to a  *)
(* state record, so that a handler that calls other methods (runCell ->    *)
(* sync -> onKilled -> cancelAll, finish -> runCell, ...) is one action.   *)
(* The record is built from the variables by St and written back by        *)
(* Commit.                                                                 *)
(***************************************************************************)
EXTENDS Integers, Sequences, FiniteSets, TLC

(***************************************************************************)
(* Bounds of the model.                                                    *)
(***************************************************************************)
MaxCells == 3       \* cells VS Code hands to runCell
MaxChunks == 3      \* data events the child processes deliver
MaxProcs == 2       \* child processes spawned by start()

Procs == 1..MaxProcs
Cells == 1..MaxCells

(***************************************************************************)
(* Text.  A string is a sequence of one-character strings.                 *)
(***************************************************************************)
NL == "\n"

\* 'error:', the marker Execution.output looks for (part_002 line 34)
ErrorMarker == <<"e", "r", "r", "o", "r", ":">>

\* String.prototype.includes
Includes(str, sub) ==
    \E i \in 0..(Len(str) - Len(sub)) : SubSeq(str, i + 1, i + Len(sub)) = sub

\* String.prototype.lastIndexOf for a one-character needle, 1-based; 0 when
\* the needle does not occur (JavaScript's -1)
LastIndexOf(str, ch) ==
    LET hits == {i \in 1..Len(str) : str[i] = ch}
    IN IF hits = {} THEN 0 ELSE CHOOSE i \in hits : \A j \in hits : j <= i

\* Array.prototype.join('') over a list of strings
RECURSIVE Join(_)
Join(list) == IF list = <<>> THEN <<>> ELSE Head(list) \o Join(Tail(list))

VARIABLES
    \* ---- HolKernel fields -------------------------------------------------
    child,              \* this.child: 0 = undefined, else the process
    currentExecution,   \* this.currentExecution: 0 = undefined, else its cell
    executionQueue,     \* this.executionQueue: sequence of cells
    executionOrder,     \* this.executionOrder
    ex,                 \* fields of the current Execution object
    \* ---- listeners attached to each child's streams -------------------------
    startupOn,          \* listenerStdout/listenerStderr of start() attached
    openOn,             \* number of handler pairs finishOpen attached
    startBuffer,        \* the `buffer` array in the closure of start()
    promise,            \* the promise start() returned
    \* ---- the child processes ------------------------------------------------
    status,             \* "unspawned", "alive" or "dead"
    booted,             \* the process has written its readiness sentinel
    stdin,              \* cells whose text was written to the stdin of p
    lost,               \* how many of them were written after p died
    answered,           \* how many texts p has answered with a sentinel
    exitCode,           \* child.exitCode is set (not null)
    notif,              \* exit notifications not yet delivered
    \* ---- VS Code: one NotebookCellExecution per cell, overflow listener ------
    nb,                 \* per cell: start/end calls, success, outputs
    overflow,           \* the OverflowEvents fired, in order
    \* ---- bookkeeping of the run ---------------------------------------------
    apx,                \* per cell: the chunks given to its Execution
    produced,           \* per cell: chunks the process wrote for its text
    submitted,          \* number of runCell calls made so far
    dropped,            \* cells removed from the queue by cancelAll
    queued,             \* cells that have waited in the queue
    nChunks,            \* number of data events so far
    uncaught,           \* the call that just ended with an exception, or "none"
    signal,             \* the signal the call just passed to process.kill, or "none"
    \* ---- the other components of the extension, one record each --------------
    ctx,                \* the notebook HOLExtensionContext and its sessions
    sink,               \* a HolNotebook rendering overflow events in its document
    dk,                 \* the debounce kernel of src/src/kernel.ts
    dc,                 \* a function wrapped by disallowConcurrency and its callers
    term,               \* a HolTerminal and the context that owns it
    po,                 \* a text given to processOpens
    deps,               \* a workspace given to readDependencies
    pt                  \* the extension context of the pseudoterminal extension

\* the variables of the sentinel kernel
kernelVars == <<child, currentExecution, executionQueue, executionOrder, ex,
                startupOn, openOn, startBuffer, promise,
                status, booted, stdin, lost, answered, exitCode, notif,
                nb, overflow, apx, produced, submitted, dropped, queued, nChunks,
                uncaught, signal>>

\* the variables of the other components
componentVars == <<ctx, sink, dk, dc, term, po, deps, pt>>

vars == <<kernelVars, componentVars>>

\* The state as one record; `why` says which path calls Execution.end.
St ==
    [child |-> child, currentExecution |-> currentExecution,
     executionQueue |-> executionQueue, executionOrder |-> executionOrder,
     ex |-> ex, startupOn |-> startupOn, openOn |-> openOn,
     startBuffer |-> startBuffer, promise |-> promise,
     status |-> status, booted |-> booted, stdin |-> stdin, lost |-> lost,
     answered |-> answered, exitCode |-> exitCode, notif |-> notif,
     nb |-> nb, overflow |-> overflow, apx |-> apx, produced |-> produced,
     submitted |-> submitted, dropped |-> dropped, queued |-> queued,
     nChunks |-> nChunks, uncaught |-> "none", signal |-> "none",
     why |-> "none"]

Commit(s) ==
    /\ child' = s.child
    /\ currentExecution' = s.currentExecution
    /\ executionQueue' = s.executionQueue
    /\ executionOrder' = s.executionOrder
    /\ ex' = s.ex
    /\ startupOn' = s.startupOn
    /\ openOn' = s.openOn
    /\ startBuffer' = s.startBuffer
    /\ promise' = s.promise
    /\ status' = s.status
    /\ booted' = s.booted
    /\ stdin' = s.stdin
    /\ lost' = s.lost
    /\ answered' = s.answered
    /\ exitCode' = s.exitCode
    /\ notif' = s.notif
    /\ nb' = s.nb
    /\ overflow' = s.overflow
    /\ apx' = s.apx
    /\ produced' = s.produced
    /\ submitted' = s.submitted
    /\ dropped' = s.dropped
    /\ queued' = s.queued
    /\ nChunks' = s.nChunks
    /\ uncaught' = s.uncaught
    /\ signal' = s.signal
    /\ UNCHANGED componentVars

(***************************************************************************)
(* class Execution (part_002 lines 6-54).  Only the current Execution is   *)
(* alive: end() clears its timer and the kernel drops the reference.       *)
(***************************************************************************)
\* new Execution(...): buffer '', success true, writeAnyway undefined.
\* writeAnyway is "unset" (undefined), "armed", "fired" or "cleared"
\* (clearTimeout was called on it: refresh() no longer schedules it)
NewExecution ==
    [buffer |-> <<>>, success |-> TRUE, writeAnyway |-> "unset", timerErr |-> FALSE]

\* a NotebookCellExecution nobody has touched; atEnd is what its start and
\* appendOutput had been called with when its end was called
NewCell ==
    [started |-> 0, ended |-> 0, success |-> TRUE, endKind |-> "none",
     order |-> -1, outputs |-> <<>>, atEnd |-> [started |-> 0, outputs |-> 0]]

\* Execution.markFail
markFail(s) == [s EXCEPT !.ex.success = FALSE]

\* Execution.output(err): surface the buffer on the cell's stderr or stdout
output(s, err) ==
    LET e == s.currentExecution
        fail == err \/ Includes(s.ex.buffer, ErrorMarker)
        s1 == IF fail THEN markFail(s) ELSE s
    IN [s1 EXCEPT !.nb[e].outputs =
            Append(@, [stream |-> IF fail THEN "stderr" ELSE "stdout",
                       text |-> s.ex.buffer])]

\* Execution.appendOutput with `this.buffer = str.substring(0, pos)` where the
\* code has `+=`: the partial line held so far is lost
ExecutionAppendOutputOverwrites(s, str, err) ==
    LET pos == LastIndexOf(str, NL)
    IN IF pos > 0
       THEN LET s1 == [s EXCEPT !.ex.buffer = SubSeq(str, 1, pos - 1)]
                s2 == output(s1, err)
                s3 == [s2 EXCEPT !.ex.buffer = SubSeq(str, pos + 1, Len(str))]
            IN IF s3.ex.buffer # <<>>
               THEN IF s3.ex.writeAnyway # "unset"
                    THEN [s3 EXCEPT !.ex.writeAnyway =
                                        IF @ = "cleared" THEN @ ELSE "armed"]
                    ELSE [s3 EXCEPT !.ex.writeAnyway = "armed",
                                    !.ex.timerErr = err]
               ELSE s3
       ELSE LET s1 == IF err THEN markFail(s) ELSE s
            IN [s1 EXCEPT !.ex.buffer = @ \o str]

\* Execution.appendOutput(str, err)
ExecutionAppendOutput(s, str, err) ==
    LET pos == LastIndexOf(str, NL)
    IN IF pos > 0
       THEN LET s1 == [s EXCEPT !.ex.buffer = @ \o SubSeq(str, 1, pos - 1)]
                s2 == output(s1, err)
                s3 == [s2 EXCEPT !.ex.buffer = SubSeq(str, pos + 1, Len(str))]
            IN IF s3.ex.buffer # <<>>
               THEN IF s3.ex.writeAnyway # "unset"
                    THEN [s3 EXCEPT !.ex.writeAnyway =            \* refresh()
                                        IF @ = "cleared" THEN @ ELSE "armed"]
                    ELSE [s3 EXCEPT !.ex.writeAnyway = "armed",   \* setTimeout
                                    !.ex.timerErr = err]
               ELSE s3
       ELSE LET s1 == IF err THEN markFail(s) ELSE s
            IN [s1 EXCEPT !.ex.buffer = @ \o str]

\* the callback of the writeAnyway timer (part_002 lines 22-25)
writeAnywayFired(s) ==
    LET s1 == output(s, s.ex.timerErr)
    IN [s1 EXCEPT !.ex.buffer = <<>>, !.ex.writeAnyway = "fired"]

\* Execution.end without `if (this.buffer) this.output()`
ExecutionEndWithoutFlush(s) ==
    LET e == s.currentExecution
    IN [s EXCEPT !.ex.writeAnyway = IF @ = "unset" THEN "unset" ELSE "cleared",
                 !.nb[e].ended = @ + 1,
                 !.nb[e].success = s.ex.success,
                 !.nb[e].endKind = s.why,
                 !.nb[e].atEnd = [started |-> s.nb[e].started,
                                  outputs |-> Len(s.nb[e].outputs)]]

\* Execution.end(): flush, clear the timer, exec.end(this.success)
ExecutionEnd(s) ==
    LET e == s.currentExecution
        s1 == IF s.ex.buffer # <<>> THEN output(s, FALSE) ELSE s
    IN [s1 EXCEPT !.ex.writeAnyway = IF @ = "unset" THEN "unset" ELSE "cleared",
                  !.nb[e].ended = @ + 1,
                  !.nb[e].success = s1.ex.success,
                  !.nb[e].endKind = s.why,
                  !.nb[e].atEnd = [started |-> s1.nb[e].started,
                                   outputs |-> Len(s1.nb[e].outputs)]]

(***************************************************************************)
(* class HolKernel (part_002 lines 57-252).                                *)
(***************************************************************************)
\* HolKernel.sendRaw: write to the child's stdin, or log an error
sendRaw(s, c) ==
    IF s.child # 0
    THEN [s EXCEPT !.stdin[s.child] = Append(@, c),
                   !.lost[s.child] = IF s.status[s.child] # "alive" THEN @ + 1 ELSE @]
    ELSE s

\* HolKernel.cancelAll without `this.executionQueue = []`
cancelAllKeepsQueue(s) ==
    IF s.currentExecution # 0
    THEN [ExecutionEnd(markFail([s EXCEPT !.why = "cancel"]))
              EXCEPT !.currentExecution = 0, !.ex = NewExecution]
    ELSE s

\* HolKernel.cancelAll without `this.currentExecution = undefined`
cancelAllKeepsCurrent(s) ==
    LET s1 == IF s.currentExecution # 0
              THEN ExecutionEnd(markFail([s EXCEPT !.why = "cancel"]))
              ELSE s
    IN [s1 EXCEPT !.executionQueue = <<>>,
                  !.dropped = @ \cup {s.executionQueue[i] : i \in 1..Len(s.executionQueue)}]

\* HolKernel.cancelAll
cancelAll(s) ==
    LET s1 == IF s.currentExecution # 0
              THEN [ExecutionEnd(markFail([s EXCEPT !.why = "cancel"]))
                        EXCEPT !.currentExecution = 0, !.ex = NewExecution]
              ELSE s
    IN [s1 EXCEPT !.executionQueue = <<>>,
                  !.dropped = @ \cup {s.executionQueue[i] : i \in 1..Len(s.executionQueue)}]

\* HolKernel.onKilled without its call of cancelAll
onKilledKeepsExecutions(s) == [s EXCEPT !.child = 0]

\* HolKernel.onKilled
onKilled(s) == [cancelAll(s) EXCEPT !.child = 0]

\* this.child?.pid: a child that could not be spawned has no pid
hasPid(s) == s.child # 0 /\ s.status[s.child] # "failed"

\* the test in HolKernel.sync: child.killed is never set (the kernel signals
\* with process.kill, not child.kill)
HandleDead(s) == s.child # 0 /\ (~hasPid(s) \/ s.exitCode[s.child])

\* HolKernel.sync
sync(s) == IF HandleDead(s) THEN onKilled(s) ELSE s

RECURSIVE runCell(_, _), finish(_)

\* HolKernel.runCell without the test that queues the cell while an
\* execution is current
runCellNeverQueues(s, c) ==
    LET s1 == sync(s)
        s2 == [s1 EXCEPT !.currentExecution = c, !.ex = NewExecution]
    IN IF s2.child # 0
       THEN sendRaw([s2 EXCEPT !.nb[c].order = s2.executionOrder,
                               !.executionOrder = @ + 1,
                               !.nb[c].started = @ + 1], c)
       ELSE LET s3 == [s2 EXCEPT !.nb[c].started = @ + 1,
                                 !.nb[c].outputs =
                                     Append(@, [stream |-> "stderr",
                                                text |-> <<"HOL process is not started">>]),
                                 !.why = "notStarted"]
            IN finish(markFail(s3))

\* HolKernel.runCell without the finish() that closes the cell it fails when
\* there is no process
runCellLeavesFailedCellOpen(s, c) ==
    IF s.currentExecution # 0
    THEN [s EXCEPT !.executionQueue = Append(@, c), !.queued = @ \cup {c}]
    ELSE LET s1 == sync(s)
             s2 == [s1 EXCEPT !.currentExecution = c, !.ex = NewExecution]
         IN IF s2.child # 0
            THEN sendRaw([s2 EXCEPT !.nb[c].order = s2.executionOrder,
                                    !.executionOrder = @ + 1,
                                    !.nb[c].started = @ + 1], c)
            ELSE markFail([s2 EXCEPT !.nb[c].started = @ + 1,
                                     !.nb[c].outputs =
                                         Append(@, [stream |-> "stderr",
                                                    text |-> <<"HOL process is not started">>])])

\* HolKernel.runCell
runCell(s, c) ==
    IF s.currentExecution # 0
    THEN [s EXCEPT !.executionQueue = Append(@, c), !.queued = @ \cup {c}]
    ELSE LET s1 == sync(s)
             s2 == [s1 EXCEPT !.currentExecution = c, !.ex = NewExecution]
         IN IF s2.child # 0
            THEN sendRaw([s2 EXCEPT !.nb[c].order = s2.executionOrder,
                                    !.executionOrder = @ + 1,
                                    !.nb[c].started = @ + 1], c)
            ELSE LET s3 == [s2 EXCEPT !.nb[c].started = @ + 1,
                                      !.nb[c].outputs =
                                          Append(@, [stream |-> "stderr",
                                                     text |-> <<"HOL process is not started">>]),
                                      !.why = "notStarted"]
                 IN finish(markFail(s3))

\* HolKernel.finish without the shift() that starts the next queued cell
finishLeavesQueue(s) ==
    IF s.currentExecution # 0
    THEN [ExecutionEnd(s) EXCEPT !.currentExecution = 0, !.ex = NewExecution]
    ELSE s

\* HolKernel.finish with executionQueue.pop() where the code has shift()
finishTakesLast(s) ==
    IF s.currentExecution # 0
    THEN LET s1 == [ExecutionEnd(s) EXCEPT !.currentExecution = 0, !.ex = NewExecution]
             n == Len(s1.executionQueue)
         IN IF n > 0
            THEN runCell([s1 EXCEPT !.executionQueue = SubSeq(@, 1, n - 1)],
                         s1.executionQueue[n])
            ELSE s1
    ELSE s

\* HolKernel.finish
finish(s) ==
    IF s.currentExecution # 0
    THEN LET s1 == [ExecutionEnd(s) EXCEPT !.currentExecution = 0, !.ex = NewExecution]
         IN IF s1.executionQueue # <<>>
            THEN runCell([s1 EXCEPT !.executionQueue = Tail(@)], Head(s1.executionQueue))
            ELSE s1
    ELSE s

\* HolKernel.appendOutput without its `else`: the overflow event fires for
\* every chunk
appendOutputAlsoOverflows(s, str, err, from) ==
    LET s1 == [s EXCEPT !.overflow = Append(@, [s |-> str, err |-> err, from |-> from])]
    IN IF s.currentExecution # 0
       THEN ExecutionAppendOutput(
                [s1 EXCEPT !.apx[s.currentExecution] = Append(@, [s |-> str, err |-> err, from |-> from])],
                str, FALSE)
       ELSE s1

\* HolKernel.appendOutput(str, err) for a chunk the process wrote for `from`
appendOutput(s, str, err, from) ==
    IF s.currentExecution # 0
    THEN ExecutionAppendOutput(
             [s EXCEPT !.apx[s.currentExecution] = Append(@, [s |-> str, err |-> err, from |-> from])],
             str, FALSE)
    ELSE [s EXCEPT !.overflow = Append(@, [s |-> str, err |-> err, from |-> from])]

\* the stdout and stderr handlers finishOpen attaches (part_002 lines 199-211)
openData(s, ch) ==
    IF ch.stream = "stdout"
    THEN IF ch.nul
         THEN finish([appendOutput(s, ch.s, FALSE, ch.from) EXCEPT !.why = "sentinel"])
         ELSE appendOutput(s, ch.s, FALSE, ch.from)
    ELSE appendOutput(s, ch.s, TRUE, ch.from)

\* HolKernel.finishOpen(result)
finishOpen(s, result) ==
    LET s1 == IF result # <<>>
              THEN [s EXCEPT !.overflow =
                        Append(@, [s |-> result, err |-> Includes(result, ErrorMarker),
                                   from |-> 0])]
              ELSE s
    IN IF s1.child # 0 THEN [s1 EXCEPT !.openOn[s1.child] = @ + 1] ELSE s1

\* the listeners of start() with a listenerStderr that only buffers the
\* chunk, as listenerStdout does: no overflow event, no reject
startupDataBuffersStderr(s, p, ch) ==
    IF ch.stream = "stdout" /\ ch.nul
    THEN LET s1 == [s EXCEPT !.startBuffer[p] = Append(@, ch.s)]
             s2 == IF s1.child = p THEN [s1 EXCEPT !.startupOn[p] = FALSE] ELSE s1
             s3 == finishOpen(s2, Join(s1.startBuffer[p]))
         IN [s3 EXCEPT !.promise[p] = IF @ = "pending" THEN "resolved" ELSE @]
    ELSE [s EXCEPT !.startBuffer[p] = Append(@, ch.s)]

\* listenerStdout / listenerStderr of start() for process p (lines 164-183)
startupData(s, p, ch) ==
    IF ch.stream = "stderr"
    THEN [s EXCEPT !.overflow = Append(@, [s |-> Join(Append(s.startBuffer[p], ch.s)),
                                           err |-> TRUE, from |-> 0]),
                   !.startBuffer[p] = <<>>,
                   !.promise[p] = IF @ = "pending" THEN "rejected" ELSE @]
    ELSE IF ch.nul
         THEN LET s1 == [s EXCEPT !.startBuffer[p] = Append(@, ch.s)]
                  s2 == IF s1.child = p THEN [s1 EXCEPT !.startupOn[p] = FALSE] ELSE s1
                  s3 == finishOpen(s2, Join(s1.startBuffer[p]))
              IN [s3 EXCEPT !.promise[p] = IF @ = "pending" THEN "resolved" ELSE @]
         ELSE [s EXCEPT !.startBuffer[p] = Append(@, ch.s)]

\* process.kill(-pid, signal): the outcomes the platform can produce.  A
\* signal to a live process group is delivered; once the process is gone
\* the call either still succeeds (the group lingers) or throws ESRCH.
KillOutcomes(s) ==
    IF ~hasPid(s) THEN {"none"}
    ELSE IF s.status[s.child] = "alive" THEN {"sent"} ELSE {"sent", "throws"}

\* HolKernel.interrupt
interrupt(s, kill) ==
    IF hasPid(s)
    THEN LET s1 == [s EXCEPT !.signal = "SIGINT"]
         IN IF kill = "throws" THEN [s1 EXCEPT !.uncaught = "interrupt"]
                               ELSE cancelAll(s1)
    ELSE cancelAll(s)

\* HolKernel.stop
stop(s, kill) ==
    IF hasPid(s)
    THEN LET s1 == [s EXCEPT !.signal = "SIGTERM"]
         IN IF kill = "throws" THEN [s1 EXCEPT !.uncaught = "stop"]
                               ELSE onKilled(s1)
    ELSE onKilled(s)

\* HolKernel.start: spawn, reset executionOrder, attach the listeners.  When
\* the executable cannot be run, spawn still returns a ChildProcess, without
\* pid, and Node emits 'error' on it later.
start(s, p, spawned) ==
    [s EXCEPT !.child = p, !.executionOrder = 0,
              !.status[p] = IF spawned THEN "alive" ELSE "failed",
              !.notif[p] = IF spawned THEN @ ELSE {"error"},
              !.startupOn[p] = TRUE,
              !.promise[p] = "pending"]

(***************************************************************************)
(* The child process.  HOL started with --zero answers every text that     *)
(* ends in NUL with output that ends in NUL; its first NUL says it is      *)
(* ready.  Output reaches the kernel in chunks of any size.                *)
(***************************************************************************)
\* the cell whose text process p is answering, 0 when it has none to answer
Answering(s, p) ==
    IF s.booted[p] /\ s.answered[p] < Len(s.stdin[p]) - s.lost[p]
    THEN s.stdin[p][s.answered[p] + 1]
    ELSE 0

\* a process delivers data events while it lives
CanDeliver(p) == status[p] = "alive"

\* the chunks a process writes: text on stdout, text on stderr, and text
\* followed by the sentinel on stdout
StdoutTexts == {<<"x", NL, "y">>}
StderrTexts == {<<"c", "d">>}
SentinelTexts == {<<"x", "y">>}

ChunkShapes ==
    [stream : {"stdout"}, s : StdoutTexts, nul : {FALSE}]
        \cup [stream : {"stderr"}, s : StderrTexts, nul : {FALSE}]
        \cup [stream : {"stdout"}, s : SentinelTexts, nul : {TRUE}]

\* the listeners attached to p's streams run in the order they were attached
RECURSIVE openDataTimes(_, _, _)
openDataTimes(s, ch, n) ==
    IF n = 0 THEN s ELSE openDataTimes(openData(s, ch), ch, n - 1)

dispatch(s, p, ch) ==
    LET s1 == IF s.startupOn[p] THEN startupData(s, p, ch) ELSE s
    IN openDataTimes(s1, ch, s.openOn[p])

(***************************************************************************)
(* Actions.                                                                *)
(***************************************************************************)
\* disallowConcurrency, `let inprogressPromise = Promise.resolve()`: no call
\* yet; log lists the arguments fn was invoked with
NewWrapped == [calls |-> <<>>, log |-> <<>>]

\* new HOLExtensionContext: no notebook.  Per HolNotebook n ever created:
\* running[n] is its kernel.running (child set), alive[n] says its HOL
\* process lives.  calls are the startSession calls that reached their first
\* await, each with the command that made it; commands counts the commands.
MaxSessions == 3    \* commands given to the context, HolNotebooks created

Sessions == 1..MaxSessions

NewContext ==
    [notebook |-> 0, created |-> 0,
     running |-> [n \in Sessions |-> FALSE],
     alive |-> [n \in Sessions |-> FALSE],
     calls |-> <<>>, errors |-> 0, sent |-> 0, commands |-> 0]

\* new HolNotebook on an empty interactive window: doc lists the cells of
\* the notebook document; events the overflow events received, each with the
\* state of its link in the overflowPromise chain and the index its edit
\* inserts at; sends the calls of send, each with its position and its index;
\* runq the cells handed to the kernel whose execution has not started
MaxEvents == 3      \* overflow events the kernel fires
MaxSent == 2        \* code cells sent to the notebook

NewNotebook ==
    [doc |-> <<>>, outputCell |-> 0, events |-> <<>>, sends |-> <<>>,
     runq |-> <<>>, started |-> <<>>]

\* new HolKernel of src/src/kernel.ts (the kernel that detects completion by
\* a timer): the fields of the class, the cells submitted with what the
\* editor shows of them, what was written to the process, the overflow
\* events fired, and the exit notifications not yet delivered
MaxDebounceCells == 2       \* cells submitted
MaxDebounceChunks == 3      \* chunks the process emits

NewDebounce ==
    [child |-> "none", currentExecution |-> 0, executionQueue |-> <<>>,
     looksLikeTheEnd |-> 0, pending |-> FALSE, armedFor |-> 0, timers |-> 0,
     outputStart |-> FALSE, executionOrder |-> 0,
     cells |-> <<>>, stdin |-> <<>>, lost |-> <<>>, overflow |-> <<>>,
     notif |-> {}, handled |-> FALSE, chunks |-> 0, endedByTimer |-> <<>>,
     signal |-> "none", threw |-> FALSE]

\* new HolTerminal (src/src/terminal.ts lines 13-40): the fields of the class,
\* what was written to the process and to the terminal, the exceptions thrown
MaxInputs == 4      \* keystrokes and sendRaw calls

NewTerminal ==
    [child |-> "none", userInput |-> TRUE, buffer |-> <<>>,
     stdin |-> <<>>, lost |-> <<>>, echoed |-> <<>>, threw |-> 0,
     signals |-> 0, inputs |-> 0]

MaxPieces == 4      \* pieces a text given to processOpens is made of

\* processOpens before any call: the text given and the text returned
NewOpens == [called |-> FALSE, pieces |-> <<>>, text |-> <<>>, out |-> <<>>]

MaxDeps == 3        \* entries of dependencies.json

\* the variables of the environment that the paths of the model name
EnvVars == {"HOLDIR", "X"}

\* readDependencies before any call: the file and the environment it found and
\* the list it returned
NewDependencies ==
    [called |-> FALSE, file |-> [kind |-> "missing", paths |-> <<>>],
     env |-> [v \in EnvVars |-> "undefined"], out |-> <<>>]

\* new HOLExtensionContext of the pseudoterminal extension (src/unnamed/part_001
\* lines 262-283): holTerminal and terminal are 0 for undefined, else the
\* number of the session that made them; handlers counts the listeners
\* registered with onDidCloseTerminal; closing holds the terminals whose
\* close event VS Code has still to emit, closed those whose event was
\* emitted, stale those whose event was emitted during a later session
MaxTerminals == 4       \* sessions started

NewPty ==
    [holTerminal |-> 0, terminal |-> 0, handlers |-> 0, created |-> 0,
     closing |-> {}, closed |-> {}, stale |-> {}]

\* the other components as constructed
InitComponents ==
    /\ ctx = NewContext
    /\ sink = NewNotebook
    /\ dk = NewDebounce
    /\ dc = NewWrapped
    /\ term = NewTerminal
    /\ po = NewOpens
    /\ deps = NewDependencies
    /\ pt = NewPty

Init ==
    /\ child = 0
    /\ currentExecution = 0
    /\ executionQueue = <<>>
    /\ executionOrder = 0
    /\ ex = NewExecution
    /\ startupOn = [p \in Procs |-> FALSE]
    /\ openOn = [p \in Procs |-> 0]
    /\ startBuffer = [p \in Procs |-> <<>>]
    /\ promise = [p \in Procs |-> "none"]
    /\ status = [p \in Procs |-> "unspawned"]
    /\ booted = [p \in Procs |-> FALSE]
    /\ stdin = [p \in Procs |-> <<>>]
    /\ lost = [p \in Procs |-> 0]
    /\ answered = [p \in Procs |-> 0]
    /\ exitCode = [p \in Procs |-> FALSE]
    /\ notif = [p \in Procs |-> {}]
    /\ nb = [c \in Cells |-> NewCell]
    /\ overflow = <<>>
    /\ apx = [c \in Cells |-> <<>>]
    /\ produced = [c \in Cells |-> 0]
    /\ submitted = 0
    /\ dropped = {}
    /\ queued = {}
    /\ nChunks = 0
    /\ uncaught = "none"
    /\ signal = "none"
    /\ InitComponents

\* VS Code hands the next cell to the controller's execute handler
RunCell ==
    /\ submitted < MaxCells
    /\ Commit(runCell([St EXCEPT !.submitted = @ + 1], submitted + 1))

\* the interrupt handler of the controller, or a cancellation token
Interrupt ==
    \E kill \in KillOutcomes(St) : Commit(interrupt(St, kill))

\* HolNotebook.stop / close / dispose
Stop ==
    \E kill \in KillOutcomes(St) : Commit(stop(St, kill))

\* HolNotebook.sync
Sync == Commit(sync(St))

\* HolNotebook.start on a kernel that has no child
Start(p) ==
    /\ child = 0
    /\ status[p] = "unspawned"
    /\ \A q \in Procs : q < p => status[q] # "unspawned"
    /\ \E spawned \in BOOLEAN : Commit(start(St, p, spawned))

\* a chunk of process p arrives
Data(p, shape) ==
    /\ nChunks < MaxChunks
    /\ CanDeliver(p)
    /\ LET from == Answering(St, p)
           ch == [stream |-> shape.stream, s |-> shape.s, nul |-> shape.nul,
                  from |-> from]
           s0 == [St EXCEPT !.nChunks = @ + 1,
                            !.produced = IF from # 0
                                         THEN [@ EXCEPT ![from] = @ + 1] ELSE @,
                            !.booted[p] = @ \/ shape.nul,
                            !.answered[p] = IF from # 0 /\ shape.nul THEN @ + 1 ELSE @]
       IN /\ shape.nul => ~booted[p] \/ from # 0
          /\ Commit(dispatch(s0, p, ch))

\* the 300 ms writeAnyway timer of the current Execution expires
WriteAnyway ==
    /\ currentExecution # 0
    /\ ex.writeAnyway = "armed"
    /\ Commit(writeAnywayFired(St))

\* the process exits (exitCode set) or is killed by a signal (exitCode stays
\* null); Node will emit 'exit' and then 'close'.  Nothing reads the handle
\* of a child the kernel no longer refers to.
Die(p) ==
    /\ status[p] = "alive"
    /\ \E code \in (IF child = p THEN BOOLEAN ELSE {FALSE}) :
           Commit([St EXCEPT !.status[p] = "dead", !.exitCode[p] = code,
                             !.notif[p] = {"exit", "close"}])

\* Node emits 'exit' or 'close' on the child: the listeners of lines 159-161
ExitNotification(p, event) ==
    /\ event \in notif[p]
    /\ event = "close" => "exit" \notin notif[p]
    /\ Commit(onKilled([St EXCEPT !.notif[p] = @ \ {event}]))

\* Node emits 'error' on a child that could not be spawned: start() attached
\* no 'error' listener, so the emit throws; 'exit' and 'close' do not follow
ErrorNotification(p) ==
    /\ "error" \in notif[p]
    /\ Commit([St EXCEPT !.notif[p] = {}, !.exitCode[p] = TRUE, !.uncaught = "error"])

Environment ==
    \/ \E p \in Procs : ErrorNotification(p)
    \/ \E p \in Procs, shape \in ChunkShapes : Data(p, shape)
    \/ WriteAnyway
    \/ \E p \in Procs : Die(p)
    \/ \E p \in Procs, event \in {"exit", "close"} : ExitNotification(p, event)

Calls ==
    \/ RunCell
    \/ Interrupt
    \/ Stop
    \/ Sync

\* The extension creates one kernel per session and starts it once
\* (HolNotebook.start, called from startSession only).
Next ==
    \/ Start(1)
    \/ Calls
    \/ Environment

Spec == Init /\ [][Next]_vars

\* Process p ends what it is writing, its start-up text or its answer to a
\* text it has read, by a chunk whose last byte is the sentinel, however many
\* chunks it wrote before
Sentinel(p) ==
    /\ nChunks = MaxChunks
    /\ CanDeliver(p)
    /\ ~booted[p] \/ Answering(St, p) # 0
    /\ \E str \in SentinelTexts :
           LET from == Answering(St, p)
               ch == [stream |-> "stdout", s |-> str, nul |-> TRUE, from |-> from]
               s0 == [St EXCEPT !.produced = IF from # 0
                                             THEN [@ EXCEPT ![from] = @ + 1] ELSE @,
                                !.booted[p] = TRUE,
                                !.answered[p] = IF from # 0 THEN @ + 1 ELSE @]
           IN Commit(dispatch(s0, p, ch))

\* process p writes the chunk that carries the sentinel
Answer(p) ==
    \/ \E shape \in ChunkShapes : shape.nul /\ Data(p, shape)
    \/ Sentinel(p)

\* The kernel started once, under runCell and interrupt calls, with a
\* process that writes in chunks of any size, may exit at any time, and is
\* notified of.  Events are delivered: the sentinel is never held back for
\* good, and neither is a notification of exit.
NextLive ==
    \/ Start(1)
    \/ RunCell
    \/ Interrupt
    \/ \E p \in Procs, shape \in ChunkShapes : Data(p, shape)
    \/ \E p \in Procs : Sentinel(p)
    \/ \E p \in Procs : Die(p)
    \/ \E p \in Procs, event \in {"exit", "close"} : ExitNotification(p, event)

\* ENABLED <<Answer(p)>>_vars: a living process that has not booted or has
\* read a text it has not answered; every answer changes booted or answered
AnswerEnabled(p) == CanDeliver(p) /\ (~booted[p] \/ Answering(St, p) # 0)

\* Node has an 'exit' or 'close' event of p to emit
Notification(p) == \E event \in {"exit", "close"} : ExitNotification(p, event)

\* ENABLED <<Notification(p)>>_vars: every notification shrinks notif[p]
NotificationEnabled(p) == notif[p] \cap {"exit", "close"} # {}

\* weak fairness of Answer(p) and of Notification(p), that is WF_vars(Answer(p))
\* and WF_vars(Notification(p)) with ENABLED written as the state predicates
\* above
SpecLive ==
    /\ Init /\ [][NextLive]_vars
    /\ \A p \in Procs : []<>(~AnswerEnabled(p)) \/ []<><<Answer(p)>>_vars
    /\ \A p \in Procs : []<>(~NotificationEnabled(p)) \/ []<><<Notification(p)>>_vars

\* The kernel as a class: start() is public and may be called again once
\* stop() or onKilled() has cleared the handle.  The calls are start, runCell
\* and stop; the processes write, exit and are notified of.
NextRestart ==
    \/ \E p \in Procs : Start(p)
    \/ RunCell
    \/ Stop
    \/ \E p \in Procs, shape \in ChunkShapes : Data(p, shape)
    \/ \E p \in Procs : Die(p)
    \/ \E p \in Procs, event \in {"exit", "close"} : ExitNotification(p, event)

SpecRestart == Init /\ [][NextRestart]_vars

(***************************************************************************)
(* One Execution on its own: the object of lines 6-54 under every sequence *)
(* of calls its public methods allow.  It is the Execution runCell made    *)
(* for cell 1 and started; its holder keeps the reference, calls           *)
(* appendOutput without `err` (as HolKernel.appendOutput does) until it    *)
(* calls end(), and may call end() again.                                  *)
(***************************************************************************)
MaxEnds == 2        \* calls of end() on the one Execution

\* the chunks handed to appendOutput: pieces of a line that says 'error:'
ExecutionTexts ==
    {<<"e", "r", "r">>, <<"o", "r", ":">>, <<"x", NL, "e", "r", "r">>,
     <<"o", "r", ":", NL>>}

InitExecution ==
    /\ child = 1
    /\ currentExecution = 1
    /\ executionQueue = <<>>
    /\ executionOrder = 1
    /\ ex = NewExecution
    /\ startupOn = [p \in Procs |-> FALSE]
    /\ openOn = [p \in Procs |-> IF p = 1 THEN 1 ELSE 0]
    /\ startBuffer = [p \in Procs |-> <<>>]
    /\ promise = [p \in Procs |-> IF p = 1 THEN "resolved" ELSE "none"]
    /\ status = [p \in Procs |-> IF p = 1 THEN "alive" ELSE "unspawned"]
    /\ booted = [p \in Procs |-> p = 1]
    /\ stdin = [p \in Procs |-> IF p = 1 THEN <<1>> ELSE <<>>]
    /\ lost = [p \in Procs |-> 0]
    /\ answered = [p \in Procs |-> 0]
    /\ exitCode = [p \in Procs |-> FALSE]
    /\ notif = [p \in Procs |-> {}]
    /\ nb = [c \in Cells |-> IF c = 1 THEN [NewCell EXCEPT !.started = 1, !.order = 0]
                                      ELSE NewCell]
    /\ overflow = <<>>
    /\ apx = [c \in Cells |-> <<>>]
    /\ produced = [c \in Cells |-> 0]
    /\ submitted = 1
    /\ dropped = {}
    /\ queued = {}
    /\ nChunks = 0
    /\ uncaught = "none"
    /\ signal = "none"
    /\ InitComponents

\* execution.appendOutput(str)
ExecutionAppend(str) ==
    /\ nChunks < MaxChunks
    /\ nb[1].ended = 0
    /\ Commit(ExecutionAppendOutput(
                  [St EXCEPT !.nChunks = @ + 1,
                             !.produced[1] = @ + 1,
                             !.apx[1] = Append(@, [s |-> str, err |-> FALSE, from |-> 1])],
                  str, FALSE))

\* execution.end()
ExecutionEndCall ==
    /\ nb[1].ended < MaxEnds
    /\ Commit(ExecutionEnd([St EXCEPT !.why = "end"]))

NextExecution ==
    \/ \E str \in ExecutionTexts : ExecutionAppend(str)
    \/ WriteAnyway
    \/ ExecutionEndCall

SpecExecution == InitExecution /\ [][NextExecution]_vars

(***************************************************************************)
(* disallowConcurrency (src/src/common.ts lines 14-21).  The wrapper keeps *)
(* one promise, inprogressPromise; every call replaces it by               *)
(* inprogressPromise.then(() => fn(arg)).  A call is "chained" until its   *)
(* then-callback is due, "running" while the promise fn returned is        *)
(* pending, then "fulfilled" or "rejected"; a call chained on a rejected   *)
(* promise is rejected without its callback being run ("skipped").         *)
(***************************************************************************)
MaxCalls == 3       \* calls of the wrapped function

WrappedArgs == {"a", "b"}

Settled == {"fulfilled", "rejected", "skipped"}

\* fn has rejected for one of the calls made so far
Rejected(d) == \E i \in 1..Len(d.calls) : d.calls[i].st = "rejected"

\* the returned function called without the chain: `return fn(arg)`
wrappedCallsAtOnce(d, arg) ==
    [d EXCEPT !.calls = Append(@, [arg |-> arg, st |-> "running", late |-> Rejected(d)]),
              !.log = Append(@, arg)]

\* the returned function: (arg) => { inprogressPromise = ...then(...) }; late
\* records that the call was made after a call before it was rejected
wrapped(d, arg) ==
    [d EXCEPT !.calls = Append(@, [arg |-> arg, st |-> "chained", late |-> Rejected(d)])]

\* the promise call k is chained on has settled: its reaction is due
thenDue(d, k) ==
    /\ k \in 1..Len(d.calls)
    /\ d.calls[k].st = "chained"
    /\ k > 1 => d.calls[k - 1].st \in Settled

\* the reaction of call k: `() => fn(arg)` if the promise before it was
\* fulfilled; a rejection passes through then() without calling it
thenReaction(d, k) ==
    IF k = 1 \/ d.calls[k - 1].st = "fulfilled"
    THEN [d EXCEPT !.calls[k].st = "running", !.log = Append(@, d.calls[k].arg)]
    ELSE [d EXCEPT !.calls[k].st = "skipped"]

\* the promise fn(arg) returned for call k settles
fnSettles(d, k, ok) ==
    [d EXCEPT !.calls[k].st = IF ok THEN "fulfilled" ELSE "rejected"]

exceptDc == <<kernelVars, ctx, sink, dk, term, po, deps, pt>>

WrappedCall(arg) ==
    /\ Len(dc.calls) < MaxCalls
    /\ dc' = wrapped(dc, arg)
    /\ UNCHANGED exceptDc

ThenReaction(k) ==
    /\ thenDue(dc, k)
    /\ dc' = thenReaction(dc, k)
    /\ UNCHANGED exceptDc

FnSettles(k, ok) ==
    /\ k \in 1..Len(dc.calls)
    /\ dc.calls[k].st = "running"
    /\ dc' = fnSettles(dc, k, ok)
    /\ UNCHANGED exceptDc

NextWrapped ==
    \/ \E arg \in WrappedArgs : WrappedCall(arg)
    \/ \E k \in 1..MaxCalls : ThenReaction(k)
    \/ \E k \in 1..MaxCalls, ok \in BOOLEAN : FnSettles(k, ok)

SpecWrapped == Init /\ [][NextWrapped]_vars

(***************************************************************************)
(* HOLExtensionContext of the notebook extension (src/unnamed/part_003     *)
(* lines 257-421) with the HolNotebooks it creates.  Of a HolNotebook only *)
(* kernel.running and the life of its process matter here; stop() signals  *)
(* the process group, which ends the process.                              *)
(***************************************************************************)
\* HolNotebook.sync -> HolKernel.sync: a dead handle is cleared
ctxSync(c) ==
    IF c.notebook # 0 /\ c.running[c.notebook] /\ ~c.alive[c.notebook]
    THEN [c EXCEPT !.running[c.notebook] = FALSE]
    ELSE c

\* HolNotebook.stop / close -> HolKernel.stop
notebookStop(c) ==
    IF c.notebook # 0 /\ c.running[c.notebook]
    THEN [c EXCEPT !.running[c.notebook] = FALSE, !.alive[c.notebook] = FALSE]
    ELSE c

\* startSession up to its first await (lines 292-330): the test, the close
\* of a stale notebook, then the awaited VS Code commands
startSession(c, by) ==
    LET c1 == ctxSync(c)
    IN IF c1.notebook # 0 /\ c1.running[c1.notebook]
       THEN [c1 EXCEPT !.errors = @ + 1]
       ELSE [notebookStop(c1) EXCEPT !.calls = Append(@, [by |-> by, pc |-> "awaiting"])]

\* startSession after the awaited commands (lines 333-334): new HolNotebook,
\* notebook.start() spawns the process
startSessionResumed(c, i) ==
    LET n == c.created + 1
    IN [c EXCEPT !.created = n, !.notebook = n,
                 !.running[n] = TRUE, !.alive[n] = TRUE,
                 !.calls[i].pc = "starting"]

\* restartSession
restartSession(c) == startSession(notebookStop(c), "restartSession")

\* sendUntilCursor up to its first await: with a running kernel it goes on
\* to notebook.send at once, else it awaits startSession first
sendUntilCursor(c) ==
    LET c1 == ctxSync(c)
    IN IF c1.notebook # 0 /\ c1.running[c1.notebook]
       THEN [c1 EXCEPT !.sent = @ + 1]
       ELSE startSession(c1, "sendUntilCursor")

\* the rest of a command whose `await notebook.start()` returned
startSessionDone(c, i) ==
    [c EXCEPT !.calls[i].pc = "done",
              !.sent = IF c.calls[i].by = "sendUntilCursor" THEN @ + 1 ELSE @]

exceptCtx == <<kernelVars, sink, dk, dc, term, po, deps, pt>>

CanCall == ctx.commands < MaxSessions

StartSession ==
    /\ CanCall
    /\ ctx' = startSession([ctx EXCEPT !.commands = @ + 1], "startSession")
    /\ UNCHANGED exceptCtx

RestartSession ==
    /\ CanCall
    /\ ctx' = restartSession([ctx EXCEPT !.commands = @ + 1])
    /\ UNCHANGED exceptCtx

SendUntilCursor ==
    /\ CanCall
    /\ ctx' = sendUntilCursor([ctx EXCEPT !.commands = @ + 1])
    /\ UNCHANGED exceptCtx

StartSessionResumed(i) ==
    /\ i \in 1..Len(ctx.calls)
    /\ ctx.calls[i].pc = "awaiting"
    /\ ctx' = startSessionResumed(ctx, i)
    /\ UNCHANGED exceptCtx

\* the promise of notebook.start() resolves: the rest of startSession runs
StartSessionDone(i) ==
    /\ i \in 1..Len(ctx.calls)
    /\ ctx.calls[i].pc = "starting"
    /\ ctx.alive[ctx.notebook]
    /\ ctx' = startSessionDone(ctx, i)
    /\ UNCHANGED exceptCtx

\* stopSession: isActive(), then notebook.close()
StopSession ==
    /\ CanCall
    /\ ctx' = notebookStop(ctxSync([ctx EXCEPT !.commands = @ + 1]))
    /\ UNCHANGED exceptCtx

\* the HOL process of notebook n exits by itself
SessionProcessExits(n) ==
    /\ ctx.alive[n]
    /\ ctx' = [ctx EXCEPT !.alive[n] = FALSE]
    /\ UNCHANGED exceptCtx

NextContext ==
    \/ StartSession
    \/ RestartSession
    \/ SendUntilCursor
    \/ \E i \in Sessions : StartSessionResumed(i)
    \/ \E i \in Sessions : StartSessionDone(i)
    \/ StopSession
    \/ \E n \in Sessions : SessionProcessExits(n)

SpecContext == Init /\ [][NextContext]_vars

(***************************************************************************)
(* HolNotebook as the sink of overflow events (src/unnamed/part_002 lines  *)
(* 394-516).  A cell of the document is [kind |-> "code", id |-> k], the   *)
(* k-th cell sent, or [kind |-> "overflow", id |-> j], the synthetic cell  *)
(* of the j-th overflow event.                                             *)
(***************************************************************************)
\* cell.index
IndexOf(doc, cell) == CHOOSE i \in 1..Len(doc) : doc[i] = cell

\* NotebookEdit.insertCells(index, [cell]) applied to the document; index is
\* 0-based and an index past the end appends
insertCells(doc, index, cell) ==
    LET at == IF index > Len(doc) THEN Len(doc) ELSE index
    IN SubSeq(doc, 1, at) \o <<cell>> \o SubSeq(doc, at + 1, Len(doc))

\* the onOverflow listener (lines 420-423): chain handleOverflow(e)
onOverflow(n, empty) ==
    [n EXCEPT !.events = Append(@, [st |-> "chained", index |-> 0, empty |-> empty])]

\* the link of event j is due: the promise before it is fulfilled
overflowDue(n, j) ==
    /\ j \in 1..Len(n.events)
    /\ n.events[j].st = "chained"
    /\ j > 1 => n.events[j - 1].st = "done"

\* handleOverflow up to `await applyEdit` (lines 426-482); an event without
\* text returns at once
handleOverflow(n, j) ==
    IF n.events[j].empty
    THEN [n EXCEPT !.events[j].st = "done"]
    ELSE [n EXCEPT !.events[j].st = "editing",
                   !.events[j].index = n.outputCell,
                   !.outputCell = @ + 1]

\* the edit of event j is applied to the document and its promise fulfilled
overflowEditApplied(n, j) ==
    [n EXCEPT !.doc = insertCells(@, n.events[j].index, [kind |-> "overflow", id |-> j]),
              !.events[j].st = "done"]

\* HolNotebook.send up to `await applyEdit` (lines 494-504)
send(n) ==
    [n EXCEPT !.sends = Append(@, [pc |-> "editing", index |-> Len(n.doc)])]

\* the edit of the k-th send is applied to the document
sendEditApplied(n, k) ==
    [n EXCEPT !.doc = insertCells(@, n.sends[k].index, [kind |-> "code", id |-> k]),
              !.sends[k].pc = "applied"]

\* notebook.cell.execute on the range [index, index + 1) (lines 511-514): the
\* controller hands the code cell standing there to HolKernel.runCell
sendExecute(n, k) ==
    LET at == n.sends[k].index + 1
    IN [n EXCEPT !.sends[k].pc = "done",
                 !.runq = IF at <= Len(n.doc) /\ n.doc[at].kind = "code"
                          THEN Append(@, n.doc[at].id) ELSE @]

\* the onWillExec listener (line 418) for the next cell the kernel runs
onWillExec(n) ==
    [n EXCEPT !.runq = Tail(@),
              !.started = Append(@, Head(n.runq)),
              !.outputCell = IndexOf(n.doc, [kind |-> "code", id |-> Head(n.runq)])]

exceptSink == <<kernelVars, ctx, dk, dc, term, po, deps, pt>>

OverflowEvent ==
    /\ Len(sink.events) < MaxEvents
    /\ \E empty \in BOOLEAN : sink' = onOverflow(sink, empty)
    /\ UNCHANGED exceptSink

HandleOverflow(j) ==
    /\ overflowDue(sink, j)
    /\ sink' = handleOverflow(sink, j)
    /\ UNCHANGED exceptSink

OverflowEditApplied(j) ==
    /\ j \in 1..Len(sink.events)
    /\ sink.events[j].st = "editing"
    /\ sink' = overflowEditApplied(sink, j)
    /\ UNCHANGED exceptSink

Send ==
    /\ Len(sink.sends) < MaxSent
    /\ sink' = send(sink)
    /\ UNCHANGED exceptSink

SendEditApplied(k) ==
    /\ k \in 1..Len(sink.sends)
    /\ sink.sends[k].pc = "editing"
    /\ sink' = sendEditApplied(sink, k)
    /\ UNCHANGED exceptSink

SendExecute(k) ==
    /\ k \in 1..Len(sink.sends)
    /\ sink.sends[k].pc = "applied"
    /\ sink' = sendExecute(sink, k)
    /\ UNCHANGED exceptSink

WillExec ==
    /\ sink.runq # <<>>
    /\ sink' = onWillExec(sink)
    /\ UNCHANGED exceptSink

NextNotebook ==
    \/ OverflowEvent
    \/ \E j \in 1..MaxEvents : HandleOverflow(j)
    \/ \E j \in 1..MaxEvents : OverflowEditApplied(j)
    \/ Send
    \/ \E k \in 1..MaxSent : SendEditApplied(k)
    \/ \E k \in 1..MaxSent : SendExecute(k)
    \/ WillExec

SpecNotebook == Init /\ [][NextNotebook]_vars

(***************************************************************************)
(* HolKernel of src/src/kernel.ts.  currentExecution is 0 (undefined), -1  *)
(* (the initial execution, without a cell) or the number of a cell; child  *)
(* is "none" (undefined), "alive" or "dead" (a handle of a process that    *)
(* has exited).  A chunk is a sequence of tokens, "> " and "# " being the  *)
(* prompts.                                                                *)
(***************************************************************************)
Prompt == "> "
Prompts == {"> ", "# "}
NotStarted == <<"HOL process is not started">>

StdoutChunks == {<<"x">>, <<"x", "> ">>, <<"> ">>, <<"> ", "x">>, <<"error:", "> ">>}
StderrChunks == {<<"c">>}

\* Execution.end (line 12): this.exec?.end(this.success, date)
dkEnd(d) ==
    IF d.currentExecution > 0
    THEN [d EXCEPT !.cells[d.currentExecution].st = "ended"]
    ELSE d

\* sendRaw (lines 61-67) as runCell calls it
dkSendRaw(d, k) ==
    CASE d.child = "alive" -> [d EXCEPT !.stdin = Append(@, k)]
      [] d.child = "dead" -> [d EXCEPT !.lost = Append(@, k)]
      [] OTHER -> d

RECURSIVE dkRunCell(_, _), dkFinish(_)

\* runCell (lines 79-103)
dkRunCell(d, k) ==
    IF d.currentExecution # 0
    THEN [d EXCEPT !.executionQueue = Append(@, k)]
    ELSE LET d1 == [d EXCEPT !.currentExecution = k, !.cells[k].st = "started"]
         IN IF d1.child # "none"
            THEN dkSendRaw([d1 EXCEPT !.cells[k].order = d.executionOrder,
                                      !.executionOrder = @ + 1,
                                      !.outputStart = TRUE], k)
            ELSE dkFinish([d1 EXCEPT !.cells[k].outputs = Append(@, [err |-> TRUE, text |-> NotStarted]),
                                     !.cells[k].success = FALSE])

\* finish (lines 105-114)
dkFinish(d) ==
    LET d1 == IF d.currentExecution # 0
              THEN [dkEnd(d) EXCEPT !.currentExecution = 0]
              ELSE [d EXCEPT !.overflow = Append(@, [s |-> <<>>, err |-> FALSE])]
    IN IF d1.executionQueue # <<>>
       THEN dkRunCell([d1 EXCEPT !.executionQueue = Tail(@)], Head(d1.executionQueue))
       ELSE d1

\* cancelAll (lines 195-202)
dkCancelAll(d) ==
    LET d1 == IF d.currentExecution # 0
              THEN [dkEnd(IF d.currentExecution > 0
                          THEN [d EXCEPT !.cells[d.currentExecution].success = FALSE]
                          ELSE d) EXCEPT !.currentExecution = 0]
              ELSE d
    IN [d1 EXCEPT !.executionQueue = <<>>]

\* the prefix of prompts that the loop of lines 149-151 skips
RECURSIVE StripPrompts(_)
StripPrompts(str) ==
    IF str # <<>> /\ Head(str) \in Prompts THEN StripPrompts(Tail(str)) ELSE str

\* lines 138-141: clearTimeout(this.looksLikeTheEnd)
dkClearTimer(d) ==
    IF d.looksLikeTheEnd # 0
    THEN [d EXCEPT !.looksLikeTheEnd = 0, !.pending = FALSE]
    ELSE d

\* the stdout handler (lines 136-164)
dkStdout(d, data) ==
    LET d0 == dkClearTimer(d)
        maybeDone == data[Len(data)] = Prompt
        str1 == IF maybeDone THEN SubSeq(data, 1, Len(data) - 1) ELSE data
        d1 == IF maybeDone
              THEN [d0 EXCEPT !.looksLikeTheEnd = d.timers + 1, !.timers = @ + 1,
                              !.pending = TRUE, !.armedFor = d.currentExecution]
              ELSE d0
        str == IF d1.outputStart THEN StripPrompts(str1) ELSE str1
        d2 == IF d1.outputStart /\ str # <<>> THEN [d1 EXCEPT !.outputStart = FALSE] ELSE d1
    IN IF str = <<>> THEN d2
       ELSE IF d2.currentExecution > 0
       THEN [d2 EXCEPT !.cells[d2.currentExecution].success =
                           IF Includes(str, <<"error:">>) THEN FALSE ELSE @,
                       !.cells[d2.currentExecution].outputs =
                           Append(@, [err |-> FALSE, text |-> str])]
       ELSE [d2 EXCEPT !.overflow = Append(@, [s |-> str, err |-> FALSE])]

\* the stderr handler (lines 165-178)
dkStderr(d, str) ==
    IF d.currentExecution > 0
    THEN [d EXCEPT !.cells[d.currentExecution].outputs = Append(@, [err |-> TRUE, text |-> str]),
                   !.cells[d.currentExecution].success = FALSE]
    ELSE [d EXCEPT !.overflow = Append(@, [s |-> str, err |-> TRUE])]

\* open (lines 127-182)
dkOpen(d) ==
    [d EXCEPT !.child = "alive", !.executionOrder = 0, !.currentExecution = -1]

\* the timer of line 146 expires: finishOutput (lines 116-122)
dkTimeout(d) ==
    dkFinish([d EXCEPT !.pending = FALSE,
                       !.endedByTimer = Append(@, [armedFor |-> d.armedFor,
                                                   ended |-> d.currentExecution])])

\* process.kill(-pid, sig) of lines 186 and 206: a signal to a process group
\* that is gone throws
dkKillOutcomes(d) ==
    CASE d.child = "none" -> {"none"}
      [] d.child = "alive" -> {"sent"}
      [] OTHER -> {"sent", "throws"}

\* close (lines 184-188)
dkClose(d, outcome) ==
    CASE outcome = "sent" -> [d EXCEPT !.signal = "SIGTERM"]
      [] outcome = "throws" -> [d EXCEPT !.threw = TRUE]
      [] OTHER -> d

\* interrupt (lines 204-209)
dkInterrupt(d, outcome) ==
    CASE outcome = "sent" -> dkCancelAll([d EXCEPT !.signal = "SIGINT"])
      [] outcome = "throws" -> [d EXCEPT !.threw = TRUE]
      [] OTHER -> dkCancelAll(d)

exceptDk == <<kernelVars, ctx, sink, dc, term, po, deps, pt>>

DebounceOpen ==
    /\ dk.child = "none"
    /\ dk' = dkOpen(dk)
    /\ UNCHANGED exceptDk

DebounceRunCell ==
    /\ Len(dk.cells) < MaxDebounceCells
    /\ dk' = dkRunCell([dk EXCEPT !.cells = Append(@, [st |-> "new", success |-> TRUE,
                                                        outputs |-> <<>>, order |-> -1])],
                       Len(dk.cells) + 1)
    /\ UNCHANGED exceptDk

DebounceStdout ==
    /\ dk.child = "alive"
    /\ dk.chunks < MaxDebounceChunks
    /\ \E data \in StdoutChunks : dk' = [dkStdout(dk, data) EXCEPT !.chunks = @ + 1]
    /\ UNCHANGED exceptDk

DebounceStderr ==
    /\ dk.child = "alive"
    /\ dk.chunks < MaxDebounceChunks
    /\ \E str \in StderrChunks : dk' = [dkStderr(dk, str) EXCEPT !.chunks = @ + 1]
    /\ UNCHANGED exceptDk

DebounceTimeout ==
    /\ dk.pending
    /\ dk' = dkTimeout(dk)
    /\ UNCHANGED exceptDk

DebounceClose ==
    /\ dk.signal # "SIGTERM" /\ ~dk.threw
    /\ dk.child # "none"
    /\ \E outcome \in dkKillOutcomes(dk) : dk' = dkClose(dk, outcome)
    /\ UNCHANGED exceptDk

DebounceInterrupt ==
    /\ dk.signal = "none" /\ ~dk.threw
    /\ \E outcome \in dkKillOutcomes(dk) : dk' = dkInterrupt(dk, outcome)
    /\ UNCHANGED exceptDk

\* the process exits, by itself or on a signal
DebounceDie ==
    /\ dk.child = "alive"
    /\ dk' = [dk EXCEPT !.child = "dead", !.notif = {"exit", "close"}]
    /\ UNCHANGED exceptDk

\* a listener of lines 179-181 runs
DebounceExitNotification ==
    /\ \E n \in dk.notif :
           dk' = [dkCancelAll(dk) EXCEPT !.notif = @ \ {n}, !.handled = TRUE]
    /\ UNCHANGED exceptDk

NextDebounce ==
    \/ DebounceOpen
    \/ DebounceRunCell
    \/ DebounceStdout
    \/ DebounceStderr
    \/ DebounceTimeout
    \/ DebounceClose
    \/ DebounceInterrupt
    \/ DebounceDie
    \/ DebounceExitNotification

SpecDebounce == Init /\ [][NextDebounce]_vars

(***************************************************************************)
(* HolTerminal (src/src/terminal.ts).  A keystroke is one character; CR,   *)
(* BS and ETX stand for '\r', '\b' and the character of code 3.            *)
(***************************************************************************)
Keys == {"a", "CR", "BS", "ETX"}
RawTexts == {"t;"}

\* this.child?.stdin?.write(text)
termWrite(h, text) ==
    CASE h.child = "alive" -> [h EXCEPT !.stdin = Append(@, text)]
      [] h.child = "dead" -> [h EXCEPT !.lost = Append(@, text)]
      [] OTHER -> h

\* interrupt (lines 66-70); a signal to a process group that is gone throws
termInterrupt(h, gone) ==
    CASE h.child = "none" -> h
      [] h.child = "dead" /\ gone -> [h EXCEPT !.threw = @ + 1]
      [] OTHER -> [h EXCEPT !.signals = @ + 1]

\* handleInput (lines 74-97); the result carries in `raised` whether the call
\* ended by an exception
handleInput(h, data, gone) ==
    IF h.userInput
    THEN LET e == [h EXCEPT !.echoed = Append(@, data)]
         IN [raised |-> data = "ETX" /\ h.child = "dead" /\ gone,
             h |-> CASE data = "BS" ->
                          [e EXCEPT !.buffer = IF @ = <<>> THEN @ ELSE SubSeq(@, 1, Len(@) - 1)]
                     [] data = "CR" ->
                          [termWrite(termWrite(e, e.buffer), <<"CR", "LF">>) EXCEPT !.buffer = <<>>]
                     [] data = "ETX" -> termInterrupt(e, gone)
                     [] OTHER -> [e EXCEPT !.buffer = Append(@, data)]]
    ELSE IF h.child = "none"
         THEN [raised |-> TRUE, h |-> [h EXCEPT !.threw = @ + 1]]
         ELSE [raised |-> FALSE, h |-> termWrite(h, <<data>>)]

\* sendRaw (lines 30-35)
termSendRaw(h, text) ==
    LET r == handleInput([h EXCEPT !.userInput = FALSE], text, FALSE)
    IN IF r.raised THEN r.h ELSE [r.h EXCEPT !.userInput = TRUE]

\* open (lines 45-58)
termOpen(h) == [h EXCEPT !.child = "alive"]

exceptTerm == <<kernelVars, ctx, sink, dk, dc, po, deps, pt>>

CanInput == term.inputs < MaxInputs

TerminalOpen ==
    /\ term.child = "none"
    /\ term' = termOpen(term)
    /\ UNCHANGED exceptTerm

TerminalSendRaw ==
    /\ CanInput
    /\ \E text \in RawTexts : term' = [termSendRaw(term, text) EXCEPT !.inputs = @ + 1]
    /\ UNCHANGED exceptTerm

TerminalHandleInput ==
    /\ CanInput
    /\ \E data \in Keys, gone \in BOOLEAN :
           term' = [handleInput(term, data, gone).h EXCEPT !.inputs = @ + 1]
    /\ UNCHANGED exceptTerm

\* the HOL process exits
TerminalDie ==
    /\ term.child = "alive"
    /\ term' = [term EXCEPT !.child = "dead"]
    /\ UNCHANGED exceptTerm

NextTerminal ==
    \/ TerminalOpen
    \/ TerminalSendRaw
    \/ TerminalHandleInput
    \/ TerminalDie

SpecTerminal == Init /\ [][NextTerminal]_vars

(***************************************************************************)
(* searchForward and processOpens (src/src/holcommands.ts lines 32-119).   *)
(* A text is a sequence of characters; indices are 0-based as in the       *)
(* source.                                                                 *)
(***************************************************************************)
\* the class \s of the regular expressions, over the characters of the model
IsSpace(c) == c \in {" ", NL, "\r", "\t"}

\* String.prototype.slice(a, b) and substring(a, b) for 0 <= a
slice(str, a, b) == IF b > Len(str) THEN SubSeq(str, a + 1, Len(str)) ELSE SubSeq(str, a + 1, b)

\* str.startsWith(w, i)
StartsWith(str, w, i) == i + Len(w) <= Len(str) /\ SubSeq(str, i + 1, i + Len(w)) = w

\* the index after the run of spaces that begins at i
RECURSIVE SkipSpaces(_, _)
SkipSpaces(str, i) ==
    IF i < Len(str) /\ IsSpace(str[i + 1]) THEN SkipSpaces(str, i + 1) ELSE i

\* openBegin = /\s*open\s/ (line 88) matches at i; its length
openBeginAt(str, i) ==
    LET j == SkipSpaces(str, i)
    IN StartsWith(str, <<"o", "p", "e", "n">>, j) /\ j + 4 < Len(str) /\ IsSpace(str[j + 5])

openBeginLength(str, i) == SkipSpaces(str, i) - i + 5

\* the stoppers of lines 82-86 after the first, which the expression of
\* line 87 wraps in \s ... \s
Stoppers ==
    {<<"f", "u", "n">>,
     <<"l", "o", "c", "a", "l">>,
     <<"o", "p", "e", "n">>,
     <<"t", "y", "p", "e">>,
     <<"d", "a", "t", "a", "t", "y", "p", "e">>,
     <<"n", "o", "n", "f", "i", "x">>,
     <<"i", "n", "f", "i", "x">>,
     <<"e", "x", "c", "e", "p", "t", "i", "o", "n">>,
     <<"i", "n">>,
     <<"e", "n", "d">>,
     <<"s", "t", "r", "u", "c", "t", "u", "r", "e">>,
     <<"T", "h", "e", "o", "r", "e", "m">>,
     <<"D", "e", "f", "i", "n", "i", "t", "i", "o", "n">>,
     <<"I", "n", "d", "u", "c", "t", "i", "v", "e">>,
     <<"C", "o", "I", "n", "d", "u", "c", "t", "i", "v", "e">>,
     <<"T", "r", "i", "v", "i", "a", "l", "i", "t", "y">>,
     <<"D", "a", "t", "a", "t", "y", "p", "e">>,
     <<"T", "y", "p", "e">>,
     <<"O", "v", "e", "r", "l", "o", "a", "d">>}

\* openTerms (line 87) matches at i: ';', or 'val' and a space, or a stopper
\* between spaces
openTermsAt(str, i) ==
    \/ StartsWith(str, <<";">>, i)
    \/ StartsWith(str, <<"v", "a", "l">>, i) /\ i + 3 < Len(str) /\ IsSpace(str[i + 4])
    \/ /\ i < Len(str) /\ IsSpace(str[i + 1])
       /\ \E w \in Stoppers :
              /\ StartsWith(str, w, i + 1)
              /\ i + 1 + Len(w) < Len(str) /\ IsSpace(str[i + 2 + Len(w)])

\* the least index of a set of indices, -1 when there is none
Leftmost(hits) == IF hits = {} THEN -1 ELSE CHOOSE i \in hits : \A j \in hits : i <= j

\* init.exec(text) (line 35): the index of the leftmost match, -1 for null
openBeginIndex(str) == Leftmost({i \in 0..Len(str) : openBeginAt(str, i)})

\* stop.exec(text) (line 43): the index of the leftmost match, -1 for null
openTermsIndex(str) == Leftmost({i \in 0..Len(str) : openTermsAt(str, i)})

\* the length of the match of openTerms at i
openTermsLength(str, i) ==
    IF StartsWith(str, <<";">>, i) THEN 1
    ELSE IF StartsWith(str, <<"v", "a", "l">>, i) /\ i + 3 < Len(str) /\ IsSpace(str[i + 4]) THEN 4
    ELSE 2 + Len(CHOOSE w \in Stoppers :
                     /\ StartsWith(str, w, i + 1)
                     /\ i + 1 + Len(w) < Len(str) /\ IsSpace(str[i + 2 + Len(w)]))

NoMatch == [found |-> FALSE, matchStart |-> 0, contentStart |-> 0, matchEnd |-> 0, contentEnd |-> 0]

\* searchForward(text, 0, openBegin, openTerms) (lines 32-62)
searchForward(text) ==
    LET matchStart == openBeginIndex(text)
        contentStart == matchStart + openBeginLength(text, matchStart)
        stopIndex == openTermsIndex(slice(text, contentStart, Len(text)))
    IN IF matchStart = -1 THEN NoMatch
       ELSE IF stopIndex = -1
       THEN [found |-> TRUE, matchStart |-> matchStart, contentStart |-> contentStart,
             matchEnd |-> Len(text) - 1, contentEnd |-> Len(text) - 1]
       ELSE [found |-> TRUE, matchStart |-> matchStart, contentStart |-> contentStart,
             matchEnd |-> contentStart + stopIndex
                            + openTermsLength(slice(text, contentStart, Len(text)), stopIndex),
             contentEnd |-> contentStart + stopIndex]

\* the code unit of a character, which Array.prototype.sort compares
Code(c) ==
    CASE c = "\t" -> 9 [] c = NL -> 10 [] c = "\r" -> 13 [] c = " " -> 32
      [] c = "(" -> 40 [] c = ")" -> 41 [] c = "*" -> 42 [] c = ";" -> 59
      [] c = "a" -> 97 [] c = "b" -> 98 [] c = "c" -> 99 [] c = "e" -> 101
      [] c = "f" -> 102 [] c = "l" -> 108 [] c = "n" -> 110 [] c = "o" -> 111
      [] c = "p" -> 112 [] c = "v" -> 118 [] c = "x" -> 120

\* a < b as strings
RECURSIVE StringLess(_, _)
StringLess(a, b) ==
    IF b = <<>> THEN FALSE
    ELSE IF a = <<>> THEN TRUE
    ELSE IF Head(a) = Head(b) THEN StringLess(Tail(a), Tail(b))
    ELSE Code(Head(a)) < Code(Head(b))

\* the list with one word added before the first word greater than it
RECURSIVE Insert(_, _)
Insert(list, w) ==
    IF list = <<>> THEN <<w>>
    ELSE IF StringLess(w, Head(list)) THEN <<w>> \o list
    ELSE <<Head(list)>> \o Insert(Tail(list), w)

\* Array.prototype.sort() (line 98)
RECURSIVE sort(_)
sort(list) == IF list = <<>> THEN <<>> ELSE Insert(sort(Tail(list)), Head(list))

\* the end of the comment whose '(*' stands at i, by the expression of line
\* 89: the index after its '*)', or -1 when the comment is not closed
RECURSIVE CommentEnd(_, _)
CommentEnd(str, i) ==
    IF i >= Len(str) THEN -1
    ELSE IF str[i + 1] # "*" THEN CommentEnd(str, i + 1)
    ELSE IF i + 1 >= Len(str) THEN -1
    ELSE IF str[i + 2] = ")" THEN i + 2
    ELSE CommentEnd(str, i + 2)

\* .replace(comment, '') (line 95)
RECURSIVE removeComments(_)
removeComments(str) ==
    IF str = <<>> THEN <<>>
    ELSE LET e == IF StartsWith(str, <<"(", "*">>, 0) THEN CommentEnd(str, 2) ELSE -1
         IN IF e = -1 THEN <<Head(str)>> \o removeComments(Tail(str))
            ELSE removeComments(slice(str, e, Len(str)))

\* .split(/\s/).filter((s) => s.length > 0) (lines 96-97)
RECURSIVE words(_, _)
words(str, word) ==
    IF str = <<>> THEN (IF word = <<>> THEN <<>> ELSE <<word>>)
    ELSE IF IsSpace(Head(str))
    THEN (IF word = <<>> THEN <<>> ELSE <<word>>) \o words(Tail(str), <<>>)
    ELSE words(Tail(str), Append(word, Head(str)))

\* the index of the last newline of the run of spaces that begins at i, -1
\* when the run has none
LastNewline(str, i) ==
    LET hits == {j \in i..(SkipSpaces(str, i) - 1) : str[j + 1] = NL}
    IN IF hits = {} THEN -1 ELSE CHOOSE j \in hits : \A k \in hits : k <= j

\* .replace(/\n\s*\n/g, '\n') (line 103)
RECURSIVE collapseBlankLines(_)
collapseBlankLines(str) ==
    IF str = <<>> THEN <<>>
    ELSE LET e == IF Head(str) = NL THEN LastNewline(str, 1) ELSE -1
         IN IF e = -1 THEN <<Head(str)>> \o collapseBlankLines(Tail(str))
            ELSE <<NL>> \o collapseBlankLines(slice(str, e + 1, Len(str)))

\* .replace(/\r/g, '') (line 103)
removeCR(str) == SelectSeq(str, LAMBDA c : c # "\r")

\* the loop of lines 93-101
RECURSIVE opensLoop(_, _)
opensLoop(text, theories) ==
    LET match == searchForward(text)
    IN IF ~match.found THEN [text |-> text, theories |-> theories]
       ELSE opensLoop(slice(text, 0, match.matchStart + 1) \o slice(text, match.contentEnd, Len(text)),
                      theories \o sort(words(removeComments(
                          slice(text, match.contentStart, match.contentEnd)), <<>>)))

\* the lines of the text returned (lines 109-118), one record a line or, for
\* the rest of the text, one record for all of it
Line(k, v) == [k |-> k, v |-> v]

\* processOpens (lines 80-119)
processOpens(input) ==
    LET r == opensLoop(input, <<>>)
        text == removeCR(collapseBlankLines(r.text))
    IN IF Len(r.theories) < 1 THEN <<Line("text", <<text>>)>>
       ELSE <<Line("banner", r.theories)>>
            \o [i \in 1..Len(r.theories) |-> Line("load", <<r.theories[i]>>)]
            \o <<Line("toggle_quietdec", <<>>), Line("open", r.theories),
                 Line("toggle_quietdec", <<>>), Line("bannerDone", <<>>),
                 Line("text", <<text>>)>>

\* the texts given: `open f b`, `open b`, ';', a newline, `val x`, a comment
\* and ` a`, put together in every order
OpenFB == <<"o", "p", "e", "n", " ", "f", " ", "b">>
OpenB == <<"o", "p", "e", "n", " ", "b">>
Pieces ==
    {OpenFB, OpenB, <<";">>, <<NL>>, <<"v", "a", "l", " ", "x">>,
     <<"(", "*", "c", "*", ")">>, <<" ", "a">>}

PieceLists == UNION {[1..n -> Pieces] : n \in 0..MaxPieces}

exceptPo == <<kernelVars, ctx, sink, dk, dc, term, deps, pt>>

\* a send command hands the text of the selection to processOpens
ProcessOpens ==
    /\ ~po.called
    /\ \E pieces \in PieceLists :
           po' = [called |-> TRUE, pieces |-> pieces, text |-> Join(pieces),
                  out |-> processOpens(Join(pieces))]
    /\ UNCHANGED exceptPo

NextOpens == ProcessOpens

SpecOpens == Init /\ [][NextOpens]_vars

(***************************************************************************)
(* readDependencies (src/src/holIDE.ts lines 334-364).  A path is a        *)
(* sequence whose first element is its first character; the file is        *)
(* missing, malformed or a list of paths; the environment gives each       *)
(* variable "set" or "undefined".                                          *)
(***************************************************************************)
\* externalDirs (lines 15-17)
externalDirs == <<<<"$", "HOLDIR">>>>

Envs == [EnvVars -> {"undefined", "set"}]
DepPaths == {<<"$", "X">>, <<"d">>, <<"e">>}
DepFiles ==
    {[kind |-> k, paths |-> <<>>] : k \in {"missing", "malformed"}}
    \cup {[kind |-> "list", paths |-> l] : l \in UNION {[1..n -> DepPaths] : n \in 0..MaxDeps}}

\* the function mapped over the paths (lines 355-362): process.env[p.slice(1)]
\* for a path that starts with '$'; the value of a variable that is set is
\* written as the path <<name, "value">>
resolveEnv(p, env) ==
    IF p[1] = "$"
    THEN (IF env[p[2]] = "set" THEN <<p[2], "value">> ELSE <<"undefined">>)
    ELSE p

\* readDependencies (lines 342-364): the list that paths.concat returns is
\* not kept
readDependencies(file, env) ==
    LET paths == externalDirs
        concat == IF file.kind = "list" THEN paths \o file.paths ELSE paths
    IN [i \in 1..Len(paths) |-> resolveEnv(paths[i], env)]

exceptDeps == <<kernelVars, ctx, sink, dk, dc, term, po, pt>>

ReadDependencies ==
    /\ ~deps.called
    /\ \E file \in DepFiles, env \in Envs :
           deps' = [called |-> TRUE, file |-> file, env |-> env,
                    out |-> readDependencies(file, env)]
    /\ UNCHANGED exceptDeps

NextDependencies == ReadDependencies

SpecDependencies == Init /\ [][NextDependencies]_vars

(***************************************************************************)
(* HOLExtensionContext of the pseudoterminal extension (src/unnamed/       *)
(* part_001 lines 297-337).  VS Code emits onDidCloseTerminal for a        *)
(* terminal some time after it was disposed of or closed by the user, and  *)
(* calls every listener registered so far.                                 *)
(***************************************************************************)
\* startSession (lines 300-324)
ptyStartSession(c) ==
    IF c.holTerminal # 0
    THEN c
    ELSE [c EXCEPT !.created = @ + 1,
                   !.holTerminal = c.created + 1,
                   !.terminal = c.created + 1,
                   !.handlers = @ + 1]

\* Terminal.dispose(): the close event of a terminal still open is to come
dispose(c, e) ==
    IF e \in c.closing \cup c.closed THEN c ELSE [c EXCEPT !.closing = @ \cup {e}]

\* stopSession (lines 329-337): this.terminal keeps the disposed terminal
ptyStopSession(c) ==
    IF c.holTerminal = 0
    THEN c
    ELSE [(IF c.terminal # 0 THEN dispose(c, c.terminal) ELSE c) EXCEPT !.holTerminal = 0]

\* the listener of lines 313-319 without its test `e === this.terminal`
onDidCloseTerminalOfAny(c, e) ==
    [c EXCEPT !.terminal = 0, !.holTerminal = 0]

\* the listener of lines 313-319
onDidCloseTerminal(c, e) ==
    IF e = c.terminal THEN [c EXCEPT !.terminal = 0, !.holTerminal = 0] ELSE c

\* VS Code calls the n listeners registered, one after the other
RECURSIVE fireDidCloseTerminal(_, _, _)
fireDidCloseTerminal(c, e, n) ==
    IF n = 0 THEN c ELSE fireDidCloseTerminal(onDidCloseTerminal(c, e), e, n - 1)

exceptPt == <<kernelVars, ctx, sink, dk, dc, term, po, deps>>

PtyStartSession ==
    /\ pt.created < MaxTerminals
    /\ pt' = ptyStartSession(pt)
    /\ UNCHANGED exceptPt

PtyStopSession ==
    /\ pt' = ptyStopSession(pt)
    /\ UNCHANGED exceptPt

\* the user closes a terminal that is open
PtyUserCloses(e) ==
    /\ e \in 1..pt.created
    /\ e \notin pt.closing \cup pt.closed
    /\ pt' = dispose(pt, e)
    /\ UNCHANGED exceptPt

\* VS Code emits the close event of terminal e
PtyCloseDelivered(e) ==
    /\ e \in pt.closing
    /\ pt' = fireDidCloseTerminal(
                 [pt EXCEPT !.closing = @ \ {e}, !.closed = @ \cup {e},
                            !.stale = IF pt.holTerminal # 0 /\ pt.terminal \notin {0, e}
                                      THEN @ \cup {e} ELSE @],
                 e, pt.handlers)
    /\ UNCHANGED exceptPt

NextPty ==
    \/ PtyStartSession
    \/ PtyStopSession
    \/ \E e \in 1..MaxTerminals : PtyUserCloses(e)
    \/ \E e \in 1..MaxTerminals : PtyCloseDelivered(e)

SpecPty == Init /\ [][NextPty]_vars

(***************************************************************************)
(* Vocabulary of the properties.                                           *)
(***************************************************************************)
Range(seq) == {seq[i] : i \in 1..Len(seq)}

\* the chunk is handled by the handlers finishOpen attached: the kernel has
\* seen the readiness sentinel of p
AfterReadiness(p) == ~startupOn[p] /\ openOn[p] >= 1

\* cells whose Execution has been started and not yet ended
Running == {c \in Cells : nb[c].started > nb[c].ended}

\* the cells whose text process p has answered completely
AnsweredCells(p) == {stdin[p][i] : i \in 1..answered[p]}

\* the text an Execution has taken from the process: what it surfaced on its
\* cell (the fixed 'not started' message is not process output) and what it
\* still buffers
RECURSIVE Surfaced(_)
Surfaced(outs) ==
    IF outs = <<>> THEN <<>>
    ELSE (IF Head(outs).text = <<"HOL process is not started">>
          THEN <<>> ELSE Head(outs).text) \o Surfaced(Tail(outs))

Accounted(c) ==
    Surfaced(nb[c].outputs) \o (IF currentExecution = c THEN ex.buffer ELSE <<>>)

\* a chunk without its last line feed
WithoutLastNL(str) ==
    LET pos == LastIndexOf(str, NL)
    IN IF pos = 0 THEN str
       ELSE SubSeq(str, 1, pos - 1) \o SubSeq(str, pos + 1, Len(str))

(***************************************************************************)
(* C1.  Every chunk received after readiness is delivered to exactly one   *)
(* destination: to the current Execution's appendOutput if and only if a   *)
(* current Execution exists when the chunk arrives, otherwise as exactly   *)
(* one overflow event; never both, never neither.  Nothing but a chunk     *)
(* arrival delivers anything to either destination.                        *)
(***************************************************************************)
C1_ExactlyOneDestination ==
    [][/\ \A p \in Procs, shape \in ChunkShapes :
             Data(p, shape) /\ AfterReadiness(p) =>
                 IF currentExecution # 0
                 THEN /\ Len(apx'[currentExecution]) = Len(apx[currentExecution]) + 1
                      /\ apx'[currentExecution][Len(apx'[currentExecution])].s = shape.s
                      /\ \A c \in Cells \ {currentExecution} : apx'[c] = apx[c]
                      /\ overflow' = overflow
                 ELSE /\ Len(overflow') = Len(overflow) + 1
                      /\ SubSeq(overflow', 1, Len(overflow)) = overflow
                      /\ overflow'[Len(overflow')].s = shape.s
                      /\ overflow'[Len(overflow')].err = (shape.stream = "stderr")
                      /\ apx' = apx
       /\ nChunks' = nChunks => apx' = apx /\ overflow' = overflow]_vars

\* a reply chunk went to an Execution and another one went to overflow
C1_Witness ==
    /\ \E c \in Cells : \E i \in 1..Len(apx[c]) : apx[c][i].from # 0
    /\ \E i \in 1..Len(overflow) : overflow[i].from # 0

(***************************************************************************)
(* C2.  Completion is declared at most once per execution and never before *)
(* all output the process produces for that execution's text has been      *)
(* appended to it: a cell ended by a sentinel has had its text answered    *)
(* completely and has received every chunk of the answer.                  *)
(***************************************************************************)
C2_CompletionOnceAndComplete ==
    \A c \in Cells :
        /\ nb[c].ended <= 1
        /\ nb[c].endKind = "sentinel" =>
               /\ \E p \in Procs : c \in AnsweredCells(p)
               /\ Cardinality({i \in 1..Len(apx[c]) : apx[c][i].from = c}) = produced[c]

(***************************************************************************)
(* C3.  At most one Execution has been started and not yet ended (it is    *)
(* the current one), and a cell's text is written to the process stdin     *)
(* only in the step in which that cell's Execution becomes the current one.*)
(***************************************************************************)
C3_OneCurrentWriteOnBind ==
    /\ [](/\ Cardinality(Running) <= 1
          /\ Running = IF currentExecution = 0 THEN {} ELSE {currentExecution})
    /\ [][\A p \in Procs :
             stdin'[p] # stdin[p] =>
                 \E c \in Cells :
                     /\ stdin'[p] = Append(stdin[p], c)
                     /\ currentExecution # c
                     /\ currentExecution' = c
                     /\ nb[c].started = 0
                     /\ nb'[c].started = 1]_vars

\* a queued cell was promoted by finish and its text written
C3_Witness ==
    /\ currentExecution = 2
    /\ 2 \in queued
    /\ stdin[1] = <<1, 2>>
    /\ nb[1].endKind = "sentinel"

(***************************************************************************)
(* C4.  Cells are numbered in submission order.  A cell is started and     *)
(* written at most once, a queued cell that no cancellation removed is     *)
(* never skipped, and a cell starts only after every earlier cell has      *)
(* ended: the queue holds exactly the waiting cells in submission order.   *)
(***************************************************************************)
C4_SubmissionOrder ==
    /\ \A c \in Cells :
           /\ nb[c].started <= 1
           /\ Cardinality({<<p, i>> \in Procs \X (1..MaxCells) :
                              i <= Len(stdin[p]) /\ stdin[p][i] = c}) <= 1
           /\ nb[c].started = 1 =>
                  \A b \in 1..(c - 1) : nb[b].ended = 1 \/ b \in dropped
           /\ c \in dropped => nb[c].started = 0
    /\ \A i \in 1..Len(executionQueue) :
           /\ executionQueue[i] <= submitted
           /\ nb[executionQueue[i]].started = 0
           /\ i > 1 => executionQueue[i - 1] < executionQueue[i]
    /\ \A c \in 1..submitted :
           nb[c].started = 0 => c \in dropped \/ c \in Range(executionQueue)
    /\ \A p \in Procs : \A i \in 1..Len(stdin[p]) :
           i > 1 => stdin[p][i - 1] < stdin[p][i]

\* three cells, the last two submitted while one was current, ran in order
\* with no cancellation
C4_Witness ==
    /\ currentExecution = 3
    /\ queued = {2, 3}
    /\ dropped = {}
    /\ stdin[1] = <<1, 2, 3>>
    /\ nb[1].endKind = "sentinel"
    /\ nb[2].endKind = "sentinel"

C6_OutputOnlyToOwnExecution ==
    \A c \in Cells : \A i \in 1..Len(apx[c]) : apx[c][i].from \in {0, c}

(***************************************************************************)
(* C7.  A process-exit notification marks the current execution failed and *)
(* ended, removes every queued cell without its text ever being written,   *)
(* and leaves the kernel without a process; every runCell on a kernel      *)
(* without a process fails that cell at once and writes nothing.           *)
(***************************************************************************)
C7_CascadeOnDeath ==
    /\ [][\A p \in Procs, event \in {"exit", "close"} :
             ExitNotification(p, event) =>
                 /\ child' = 0
                 /\ currentExecution' = 0
                 /\ executionQueue' = <<>>
                 /\ stdin' = stdin
                 /\ currentExecution # 0 =>
                        /\ nb'[currentExecution].ended = nb[currentExecution].ended + 1
                        /\ nb'[currentExecution].success = FALSE
                 /\ \A c \in Range(executionQueue) : nb'[c] = nb[c]]_vars
    /\ [][RunCell /\ child = 0 =>
             /\ stdin' = stdin
             /\ child' = 0
             /\ currentExecution' = 0
             /\ nb'[submitted'].started = 1
             /\ nb'[submitted'].ended = 1
             /\ nb'[submitted'].success = FALSE]_vars
    /\ [](\A c \in dropped :
              /\ nb[c].started = 0
              /\ \A p \in Procs : c \notin Range(stdin[p]))

\* the process died with one current and one queued cell; the notification
\* cancelled both and the next cell failed fast
C7_Witness ==
    /\ child = 0
    /\ status[1] = "dead"
    /\ "exit" \notin notif[1]
    /\ nb[1].endKind = "cancel"
    /\ dropped = {2}
    /\ nb[3].endKind = "notStarted"
    /\ stdin[1] = <<1>>

(***************************************************************************)
(* C8.  interrupt() while an execution is running ends that execution with *)
(* success = false in the same step, empties the queue, leaves no current  *)
(* execution and keeps the process handle.                                 *)
(***************************************************************************)
C8_InterruptImmediate ==
    [][Interrupt /\ currentExecution # 0 =>
          /\ nb'[currentExecution].ended = nb[currentExecution].ended + 1
          /\ nb'[currentExecution].success = FALSE
          /\ executionQueue' = <<>>
          /\ currentExecution' = 0
          /\ child' = child
          /\ stdin' = stdin]_vars

(***************************************************************************)
(* C9.  interrupt() and stop() cancel unconditionally, also when the       *)
(* signal cannot be delivered: no exception reaches the caller, the        *)
(* current execution is failed and ended, the queue is cleared.            *)
(***************************************************************************)
C9_CancelEvenIfSignalFails ==
    [][Interrupt \/ Stop =>
          /\ uncaught' = "none"
          /\ executionQueue' = <<>>
          /\ currentExecution' = 0
          /\ currentExecution # 0 =>
                 /\ nb'[currentExecution].ended = nb[currentExecution].ended + 1
                 /\ nb'[currentExecution].success = FALSE]_vars

(***************************************************************************)
(* C10.  After stop() or an exit notification the kernel is Idle: no       *)
(* process handle, no current execution, empty queue; and on an Idle       *)
(* kernel a further notification or stop() changes no kernel state and     *)
(* ends no execution again.                                                *)
(***************************************************************************)
C10_IdleAndIdempotent ==
    [][Stop \/ (\E p \in Procs, event \in {"exit", "close"} : ExitNotification(p, event)) =>
          /\ child' = 0
          /\ currentExecution' = 0
          /\ executionQueue' = <<>>
          /\ \A c \in Cells : nb'[c].ended <= 1
          /\ child = 0 =>
                 /\ nb' = nb
                 /\ overflow' = overflow
                 /\ ex' = ex
                 /\ executionOrder' = executionOrder
                 /\ stdin' = stdin]_vars

(***************************************************************************)
(* C11.  A kernel without a process has no current execution and an empty  *)
(* queue, and runCell on it fails that one cell within the call: the       *)
(* cell's execution is started, gets the one output 'HOL process is not    *)
(* started' on the error stream, and is ended with success = false after   *)
(* both; nothing is written or signalled, no other cell is touched, and    *)
(* the kernel is again without process, current execution and queue.       *)
(***************************************************************************)
C11_RunCellWithoutProcess ==
    /\ [](child = 0 => currentExecution = 0 /\ executionQueue = <<>>)
    /\ [][RunCell /\ child = 0 =>
             /\ nb'[submitted'] =
                    [started |-> 1, ended |-> 1, success |-> FALSE,
                     endKind |-> "notStarted", order |-> -1,
                     outputs |-> <<[stream |-> "stderr",
                                    text |-> <<"HOL process is not started">>]>>,
                     atEnd |-> [started |-> 1, outputs |-> 1]]
             /\ \A c \in Cells \ {submitted'} : nb'[c] = nb[c]
             /\ stdin' = stdin
             /\ signal' = "none"
             /\ overflow' = overflow
             /\ uncaught' = "none"
             /\ child' = 0
             /\ currentExecution' = 0
             /\ executionQueue' = <<>>]_vars

\* a cell failed before the kernel was started, the next ran on the started
\* kernel, and one more failed after stop()
C11_Witness ==
    /\ nb[1].endKind = "notStarted"
    /\ nb[2].endKind = "sentinel"
    /\ nb[3].endKind = "notStarted"
    /\ status[1] = "alive"

(***************************************************************************)
(* C12.  The promise of start() resolves only once the readiness sentinel  *)
(* of its process has been seen, and no cell text is written to the stdin  *)
(* of a process before its readiness sentinel has been seen.               *)
(***************************************************************************)
C12_NoWriteBeforeReadiness ==
    /\ [](\A p \in Procs : promise[p] = "resolved" => booted[p])
    /\ [][\A p \in Procs : stdin'[p] # stdin[p] => booted[p]]_vars

(***************************************************************************)
(* C13.  When runCell, interrupt or stop is called while the handle shows  *)
(* the process is gone (its exit code is set) and no exit notification has *)
(* been handled, the call leaves the kernel without process, current       *)
(* execution and queue, the execution that was current is failed and       *)
(* ended, and the call writes nothing and passes no signal to              *)
(* process.kill.                                                           *)
(***************************************************************************)
C13_SyncBeforeUse ==
    [][(RunCell \/ Interrupt \/ Stop) /\ HandleDead(St) =>
          /\ child' = 0
          /\ currentExecution' = 0
          /\ executionQueue' = <<>>
          /\ currentExecution # 0 =>
                 /\ nb'[currentExecution].ended = 1
                 /\ nb'[currentExecution].success = FALSE
          /\ stdin' = stdin
          /\ signal' = "none"]_vars

(***************************************************************************)
(* C14.  A second call of end() on the same Execution changes nothing on   *)
(* the cell: no second end notification (the count stays 1), no further    *)
(* output, the recorded success flag unaltered.                            *)
(***************************************************************************)
C14_EndTwice ==
    [][ExecutionEndCall /\ nb[1].ended >= 1 => nb' = nb]_vars

(***************************************************************************)
(* C15.  Every Execution the kernel creates (every submitted cell that is  *)
(* neither waiting in the queue nor was removed from it) has had its start *)
(* notification exactly once; its end notification is issued at most once, *)
(* after the start notification; and after the end notification nothing is *)
(* appended to the cell or handed to its Execution.                        *)
(***************************************************************************)
C15_StartOnceEndOnceNoOutputAfter ==
    /\ [](\A c \in Cells :
              /\ nb[c].started = IF /\ c <= submitted
                                    /\ c \notin Range(executionQueue)
                                    /\ c \notin dropped
                                 THEN 1 ELSE 0
              /\ nb[c].ended <= nb[c].started
              /\ nb[c].ended = 1 =>
                     /\ nb[c].atEnd.started = 1
                     /\ nb[c].atEnd.outputs = Len(nb[c].outputs)
                     /\ currentExecution # c)
    /\ [][\A c \in Cells :
             /\ nb[c].started = 1 => nb'[c].started = 1
             /\ nb[c].ended = 1 => nb'[c] = nb[c] /\ apx'[c] = apx[c]]_vars

\* one cell ended by the sentinel after output, one by stop(), one because
\* there was no process
C15_Witness ==
    /\ nb[1].endKind = "sentinel"
    /\ Len(nb[1].outputs) >= 2
    /\ nb[2].endKind = "cancel"
    /\ nb[3].endKind = "notStarted"

(***************************************************************************)
(* C16.  An execution that was current when a chunk arrived on the         *)
(* process's stderr ends with success = false, whatever the chunk's text.  *)
(***************************************************************************)
C16_StderrFailsExecution ==
    \A c \in Cells :
        nb[c].ended >= 1 /\ (\E i \in 1..Len(apx[c]) : apx[c][i].err) =>
            nb[c].success = FALSE

\* the concatenation of the chunks handed to the Execution of cell c
Given(c) == Join([i \in 1..Len(apx[c]) |-> apx[c][i].s])

(***************************************************************************)
(* C17.  However the stdout of an execution is split into chunks and       *)
(* however the chunks interleave with the writeAnyway timer: if the        *)
(* concatenation of the chunks contains 'error:', the execution ends with  *)
(* success = false.                                                        *)
(***************************************************************************)
C17_FailureIndependentOfChunking ==
    nb[1].ended >= 1 /\ Includes(Given(1), ErrorMarker) => nb[1].success = FALSE

\* what the Execution of cell c was given, without the line feed each chunk
\* is split at
GivenLines(c) == Join([i \in 1..Len(apx[c]) |-> WithoutLastNL(apx[c][i].s)])

(***************************************************************************)
(* C18.  When an execution has ended, however it ended, all text it was    *)
(* given (and so all text it still buffered) is on the cell, and it was    *)
(* there when the end notification was issued; the writeAnyway timer fires *)
(* only for the current execution, never for a cell that has ended.        *)
(***************************************************************************)
C18_FlushOnEnd ==
    /\ [](\A c \in Cells :
              nb[c].ended >= 1 =>
                  /\ Surfaced(nb[c].outputs) = GivenLines(c)
                  /\ nb[c].atEnd.outputs = Len(nb[c].outputs))
    /\ [][WriteAnyway =>
             /\ nb[currentExecution].ended = 0
             /\ \A c \in Cells \ {currentExecution} : nb'[c] = nb[c]]_vars

\* a partial line the timer surfaced, and a later partial line surfaced by
\* the end() of an interrupt
C18_Witness ==
    /\ nb[1].endKind = "cancel"
    /\ Len(nb[1].outputs) = 3
    /\ nb[1].outputs[2].text = <<"y">>
    /\ nb[1].outputs[3].text = <<"c", "d">>

(***************************************************************************)
(* C19.  When the exit of the process is notified, the current execution   *)
(* and every queued cell are reported as failed executions (each has       *)
(* received an end with success = false), and the kernel is left without   *)
(* process, current execution and queue.                                   *)
(***************************************************************************)
C19_QueuedCellsFailedOnDeath ==
    [][\A p \in Procs, event \in {"exit", "close"} :
          ExitNotification(p, event) =>
              /\ child' = 0
              /\ currentExecution' = 0
              /\ executionQueue' = <<>>
              /\ \A c \in Range(executionQueue) \cup (Cells \cap {currentExecution}) :
                     /\ nb'[c].ended = 1
                     /\ nb'[c].success = FALSE]_vars

(***************************************************************************)
(* C20.  A chunk on the stderr of a process whose readiness sentinel has   *)
(* not been seen rejects the promise of start() and fires one overflow     *)
(* event, flagged as error, carrying the output buffered so far and the    *)
(* chunk; a rejected promise never turns into a resolved one.              *)
(***************************************************************************)
C20_StderrBeforeReadinessRejects ==
    /\ [][\A p \in Procs, shape \in ChunkShapes :
             Data(p, shape) /\ shape.stream = "stderr" /\ ~booted[p] =>
                 /\ promise'[p] = "rejected"
                 /\ overflow' = Append(overflow,
                                       [s |-> Join(startBuffer[p]) \o shape.s,
                                        err |-> TRUE, from |-> 0])
                 /\ apx' = apx]_vars
    /\ [][\A p \in Procs : promise[p] = "rejected" => promise'[p] = "rejected"]_vars

\* stdout text, then stderr text, then the readiness sentinel: the promise
\* stays rejected and the overflow event carries both texts
C20_Witness ==
    /\ promise[1] = "rejected"
    /\ booted[1]
    /\ Len(overflow) >= 1
    /\ overflow[1] = [s |-> <<"x", NL, "y", "c", "d">>, err |-> TRUE, from |-> 0]

(***************************************************************************)
(* C21.  When the executable could not be spawned and Node has reported    *)
(* it, the promise of start() is rejected and the kernel has no process    *)
(* handle (running is false); a runCell on a kernel whose spawn failed     *)
(* fails the cell at once with 'HOL process is not started'.               *)
(***************************************************************************)
C21_SpawnFailureSurfaced ==
    /\ [](\A p \in Procs :
              status[p] = "failed" /\ "error" \notin notif[p] =>
                  /\ promise[p] = "rejected"
                  /\ child # p)
    /\ [][RunCell /\ child # 0 /\ status[child] = "failed" /\ currentExecution = 0 =>
             /\ nb'[submitted'].endKind = "notStarted"
             /\ nb'[submitted'].success = FALSE
             /\ stdin' = stdin
             /\ child' = 0]_vars

(***************************************************************************)
(* C25.  Invocations of a function wrapped by disallowConcurrency never    *)
(* overlap: at most one call's fn is running, fn for a call is invoked     *)
(* only when the promise of every earlier call has settled, and fn has     *)
(* been invoked with the arguments of the calls in call order.             *)
(***************************************************************************)
C25_NoOverlapCallOrder ==
    /\ [](/\ Cardinality({k \in 1..Len(dc.calls) : dc.calls[k].st = "running"}) <= 1
          /\ Len(dc.log) <= Len(dc.calls)
          /\ \A k \in 1..Len(dc.calls) :
                 IF k <= Len(dc.log)
                 THEN /\ dc.log[k] = dc.calls[k].arg
                      /\ dc.calls[k].st \in {"running", "fulfilled", "rejected"}
                 ELSE dc.calls[k].st \in {"chained", "skipped"})
    /\ [][\A k \in 1..MaxCalls :
             ThenReaction(k) /\ dc'.calls[k].st = "running" =>
                 \A j \in 1..(k - 1) : dc.calls[j].st \in Settled]_vars

\* three overlapping calls: the first has finished, the second is running,
\* the third waits
C25_Witness ==
    /\ Len(dc.calls) = 3
    /\ dc.calls[1].st = "fulfilled"
    /\ dc.calls[2].st = "running"
    /\ dc.calls[3].st = "chained"
    /\ dc.log = <<dc.calls[1].arg, dc.calls[2].arg>>

\* a session is active, or a startSession call is on its way to one
SessionActive == ctx.notebook # 0 /\ ctx.running[ctx.notebook] /\ ctx.alive[ctx.notebook]
SessionBeingStarted ==
    \E i \in 1..Len(ctx.calls) : ctx.calls[i].pc \in {"awaiting", "starting"}

(***************************************************************************)
(* C22.  At most one HOL process spawned for the context is alive at any   *)
(* time, and a startSession made while a session is active or is being     *)
(* started starts nothing and is reported as an error.                     *)
(***************************************************************************)
C22_SingleSession ==
    /\ [](Cardinality({n \in Sessions : ctx.alive[n]}) <= 1)
    /\ [][StartSession /\ (SessionActive \/ SessionBeingStarted) =>
             /\ ctx'.calls = ctx.calls
             /\ ctx'.errors = ctx.errors + 1]_vars

\* the overflow events whose cells are in the document, in document order
OverflowCells ==
    LET at == {i \in 1..Len(sink.doc) : sink.doc[i].kind = "overflow"}
    IN [i \in at |-> sink.doc[i].id]

(***************************************************************************)
(* C23.  The edits of overflow events never overlap: the edit of an event  *)
(* begins only when the edit of every earlier event has completed; and the *)
(* synthetic cells stand in the document in the order the events were      *)
(* received.                                                               *)
(***************************************************************************)
C23_OverflowSerializedInOrder ==
    /\ [](/\ Cardinality({j \in 1..Len(sink.events) : sink.events[j].st = "editing"}) <= 1
          /\ \A i, j \in DOMAIN OverflowCells :
                 i < j => OverflowCells[i] < OverflowCells[j])
    /\ [][\A j \in 1..MaxEvents :
             HandleOverflow(j) => \A i \in 1..(j - 1) : sink.events[i].st = "done"]_vars

(***************************************************************************)
(* C24.  In the kernel of src/src/kernel.ts, a chunk on stdout or stderr   *)
(* that arrives while the completion timer is pending cancels that timer:  *)
(* after the chunk, the timer that was pending is pending no more.         *)
(***************************************************************************)
C24_ChunkCancelsTimer ==
    [][(DebounceStdout \/ DebounceStderr) /\ dk.pending =>
           ~(dk'.pending /\ dk'.looksLikeTheEnd = dk.looksLikeTheEnd)]_vars

(***************************************************************************)
(* C30.  In the kernel of src/src/kernel.ts, a cell submitted after an     *)
(* exit or close notification was handled, with no execution current,      *)
(* ends at once as failed with 'HOL process is not started', and nothing   *)
(* is written to the process.                                              *)
(***************************************************************************)
C30_RunCellAfterExit ==
    [][DebounceRunCell /\ dk.handled /\ dk.currentExecution = 0 =>
           LET cell == dk'.cells[Len(dk'.cells)]
           IN /\ cell.st = "ended" /\ ~cell.success
              /\ cell.outputs = <<[err |-> TRUE, text |-> NotStarted]>>
              /\ dk'.stdin = dk.stdin /\ dk'.lost = dk.lost]_vars

(***************************************************************************)
(* C26.  HolTerminal.sendRaw called while no child process exists writes   *)
(* nothing, throws nothing and leaves the terminal as it was: userInput is *)
(* true again and the line buffer and the echo are untouched.              *)
(***************************************************************************)
C26_SendRawWithoutChild ==
    [][TerminalSendRaw /\ term.child = "none" /\ term.userInput =>
           /\ term'.stdin = term.stdin /\ term'.lost = term.lost
           /\ term'.threw = term.threw
           /\ term'.userInput
           /\ term'.buffer = term.buffer /\ term'.echoed = term.echoed]_vars

\* the names of the load directives returned, in their order
Loads == [i \in 1..Len(SelectSeq(po.out, LAMBDA l : l.k = "load")) |->
              SelectSeq(po.out, LAMBDA l : l.k = "load")[i].v[1]]

\* the pieces that are open declarations, at their places
OpenPieces == {i \in 1..Len(po.pieces) : po.pieces[i] \in {OpenFB, OpenB}}

\* the text is `open f b;` between texts without open declarations
HasOneOpenClause(i) ==
    /\ OpenPieces = {i}
    /\ po.pieces[i] = OpenFB
    /\ i < Len(po.pieces) /\ po.pieces[i + 1] = <<";">>

(***************************************************************************)
(* C27.  For a text containing `open f b;`, processOpens returns the       *)
(* banner, the load directives of b and f in this order, one open          *)
(* declaration naming both between the two quiet-mode toggles, the closing *)
(* banner, and the text given without the open clause.                     *)
(***************************************************************************)
C27_OpenClauseProcessed ==
    \A i \in 1..MaxPieces :
        po.called /\ HasOneOpenClause(i) =>
            po.out = <<Line("banner", <<<<"b">>, <<"f">>>>),
                       Line("load", <<<<"b">>>>), Line("load", <<<<"f">>>>),
                       Line("toggle_quietdec", <<>>),
                       Line("open", <<<<"b">>, <<"f">>>>),
                       Line("toggle_quietdec", <<>>),
                       Line("bannerDone", <<>>),
                       Line("text", <<removeCR(collapseBlankLines(
                           Join(SubSeq(po.pieces, 1, i - 1)
                                \o SubSeq(po.pieces, i + 2, Len(po.pieces)))))>>)>>

(***************************************************************************)
(* C28.  For every text, the load directives name each dependency once     *)
(* and stand in lexical order of the names.                                *)
(***************************************************************************)
C28_OneLoadPerNameSorted ==
    po.called =>
        \A i, j \in 1..Len(Loads) : i < j => StringLess(Loads[i], Loads[j])

\* the directories the file lists, none when it is missing or malformed
Listed == IF deps.file.kind = "list" THEN deps.file.paths ELSE <<>>

(***************************************************************************)
(* C29.  readDependencies returns the default directories and every        *)
(* directory that dependencies.json lists, an entry that starts with '$'   *)
(* replaced by the value of the environment variable; without a readable   *)
(* file it returns the defaults alone.                                     *)
(***************************************************************************)
C29_DependenciesRead ==
    deps.called =>
        deps.out = [i \in 1..(Len(externalDirs) + Len(Listed)) |->
                        resolveEnv((externalDirs \o Listed)[i], deps.env)]

(***************************************************************************)
(* C31.  In the kernel of src/src/kernel.ts, the finish() that a           *)
(* completion timer triggers ends no execution other than the one that was *)
(* current when the timer was armed.                                       *)
(***************************************************************************)
C31_TimerEndsItsOwnExecution ==
    \A i \in 1..Len(dk.endedByTimer) :
        dk.endedByTimer[i].ended # 0 =>
            dk.endedByTimer[i].ended = dk.endedByTimer[i].armedFor

(***************************************************************************)
(* C32.  After stop() and a new start(), an exit or close notification of  *)
(* the process stopped before leaves the kernel's handle of the new        *)
(* process, its current execution and its queue as they are.               *)
(***************************************************************************)
C32_LateNotificationsHarmless ==
    [][\A p \in Procs, event \in {"exit", "close"} :
           ExitNotification(p, event) /\ child # 0 /\ child # p =>
               /\ child' = child
               /\ currentExecution' = currentExecution
               /\ executionQueue' = executionQueue]_vars

(***************************************************************************)
(* C33.  Every execution the kernel starts is eventually ended, when       *)
(* events are delivered and every process either ends its answers by the   *)
(* sentinel or exits and is notified of.                                   *)
(***************************************************************************)
C33_EveryExecutionEnds ==
    \A c \in Cells : (nb[c].started # 0) ~> (nb[c].ended # 0)

\* cell 1 was ended by the sentinel, arriving after MaxChunks chunks, and
\* cell 2, started after it, by the notification of the exit of the process
C33_Witness ==
    /\ nb[1].started # 0 /\ nb[1].endKind = "sentinel"
    /\ nb[2].started # 0 /\ nb[2].endKind = "cancel"
    /\ nChunks = MaxChunks
    /\ exitCode[1] /\ child = 0

(***************************************************************************)
(* C34.  Between operations a non-empty execution queue comes with a       *)
(* current execution, and a kernel without a process handle has no         *)
(* current execution and an empty queue.                                   *)
(***************************************************************************)
C34_NoStrandedCell ==
    /\ executionQueue # <<>> => currentExecution # 0
    /\ child = 0 => currentExecution = 0 /\ executionQueue = <<>>

\* the sentinel ended cell 1 while cells 2 and 3 were queued: finish() made
\* cell 2 the current execution and cell 3 stays queued behind it
C34_Witness ==
    /\ nb[1].endKind = "sentinel"
    /\ currentExecution = 2
    /\ executionQueue = <<3>>
    /\ child # 0

(***************************************************************************)
(* C35.  When send runs the execute command, the index it passes is the    *)
(* position of the code cell that this call of send inserted.              *)
(***************************************************************************)
C35_SendExecutesItsCell ==
    [][\A k \in 1..MaxSent :
           SendExecute(k) =>
               /\ sink.sends[k].index + 1 <= Len(sink.doc)
               /\ sink.doc[sink.sends[k].index + 1] = [kind |-> "code", id |-> k]]_vars

(***************************************************************************)
(* C36.  A rejection does not block the calls after it: no call of the     *)
(* wrapped function made after a rejection is settled without fn having    *)
(* been invoked for it.                                                    *)
(***************************************************************************)
C36_RejectionDoesNotBlock ==
    \A k \in 1..Len(dc.calls) : dc.calls[k].late => dc.calls[k].st # "skipped"

(***************************************************************************)
(* C37.  In the pseudoterminal extension context a session that is active  *)
(* keeps its holTerminal and its terminal through every step that is not   *)
(* stopSession or the close event of its own terminal: the close event of  *)
(* the terminal of an earlier session does not deactivate it.              *)
(***************************************************************************)
C37_OldCloseKeepsNewSession ==
    [][pt.holTerminal # 0 /\ ~PtyStopSession /\ ~PtyCloseDelivered(pt.terminal) =>
           /\ pt'.holTerminal = pt.holTerminal
           /\ pt'.terminal = pt.terminal]_vars

\* session 2 is active and the close event of the terminal of session 1 was
\* emitted after session 2 had started
C37_Witness ==
    /\ pt.holTerminal = 2 /\ pt.terminal = 2
    /\ 1 \in pt.stale
    /\ pt.handlers = 2

(***************************************************************************)
(* C38.  For a text that ends with its only open declaration, with no      *)
(* terminator after it, searchForward reports contentEnd and matchEnd at   *)
(* the end of the text, and processOpens loads every name of the           *)
(* declaration, the last one in full.                                      *)
(***************************************************************************)
C38_UnterminatedOpenInFull ==
    po.called /\ po.pieces # <<>> /\ OpenPieces = {Len(po.pieces)} =>
        /\ searchForward(po.text).contentEnd = Len(po.text)
        /\ searchForward(po.text).matchEnd = Len(po.text)
        /\ Loads = IF po.pieces[Len(po.pieces)] = OpenFB
                   THEN <<<<"b">>, <<"f">>>>
                   ELSE <<<<"b">>>>

====
